---- MODULE Spec2Model ----
(***************************************************************************)
(* Point-of-sale page (POSSystemPage): cart, payment modal, checkout and   *)
(* the two store tables it writes (orders, order_items); the admin forms    *)
(* AddProduct and AddCategory with the products and categories tables; and *)
(* the figures of the admin StatisticsPage.                                *)
(*                                                                         *)
(* JavaScript numbers are binary floating-point values rounded to nearest, *)
(* ties to even.  The model keeps that arithmetic with a reduced format:   *)
(* MantBits significant bits and a smallest step of 2^-FracBits.  A number *)
(* is represented by the integer count of 2^-FracBits units it holds, so   *)
(* comparison and equality of numbers are those of the integers.           *)
(***************************************************************************)
EXTENDS Integers, Sequences, FiniteSets

\* ----------------------------------------------------------------- bounds
MantBits == 12
FracBits == 11
MaxCart == 2
MaxOrders == 1
MaxPriceCents == 100
MaxQty == 3
MaxProducts == 4
MaxCategories == 2
MaxStatOrders == 2
MaxRecentOrders == 6
MaxRecentBarcodes == 3
MaxCustomVariants == 2
MaxReceiptJobs == 2
MaxPrintJobs == 2

\* ------------------------------------------------------ program constants
MaxDiscount == 100
RecentLimit == 5

\* ------------------------------------------------------- number arithmetic
RECURSIVE Pow2(_)
Pow2(n) == IF n <= 0 THEN 1 ELSE 2 * Pow2(n - 1)

RECURSIVE BitLen(_)
BitLen(n) == IF n = 0 THEN 0 ELSE 1 + BitLen(n \div 2)

Abs(x) == IF x < 0 THEN -x ELSE x

Sign(x) == IF x < 0 THEN -1 ELSE 1

Max(a, b) == IF a >= b THEN a ELSE b

Min(a, b) == IF a <= b THEN a ELSE b

\* Odd part and number of trailing zero bits of n > 0.
RECURSIVE TrailingZeros(_)
TrailingZeros(n) == IF n = 0 \/ n % 2 = 1 THEN 0 ELSE 1 + TrailingZeros(n \div 2)

OddPart(n) == n \div Pow2(TrailingZeros(n))

\* The representable number nearest to n * 2^sh units (n >= 0), ties to even.
RoundNearestEven(n, sh) ==
  LET drop == Max(BitLen(n) - MantBits, -sh)
  IN  IF drop <= 0
      THEN n * Pow2(sh)
      ELSE LET q == n \div Pow2(drop)
               r == n % Pow2(drop)
               half == Pow2(drop - 1)
               up == IF r > half \/ (r = half /\ q % 2 = 1) THEN 1 ELSE 0
           IN  (q + up) * Pow2(sh + drop)

\* a + b and a - b: the exact sum of two numbers, rounded.
NumAdd(a, b) == Sign(a + b) * RoundNearestEven(Abs(a + b), 0)

NumSub(a, b) == Sign(a - b) * RoundNearestEven(Abs(a - b), 0)

\* a * b: the exact product, rounded.
NumMul(a, b) ==
  IF a = 0 \/ b = 0 THEN 0
  ELSE Sign(a) * Sign(b) *
       RoundNearestEven(OddPart(Abs(a)) * OddPart(Abs(b)),
                        TrailingZeros(Abs(a)) + TrailingZeros(Abs(b)) - FracBits)

\* a / d for a positive integer d (the code divides by 100 only): the exact
\* quotient, rounded.  The low bit of the scaled quotient is a sticky bit.
NumDivInt(a, d) ==
  IF a = 0 THEN 0
  ELSE LET n == Abs(a)
           grow == Max(MantBits - BitLen(OddPart(n)), 0)
           m == OddPart(n) * Pow2(grow)
           sh == TrailingZeros(n) - grow
           k == BitLen(d) + 2
           q == (m * Pow2(k)) \div d
           sticky == IF (m * Pow2(k)) % d = 0 THEN 0 ELSE 1
       IN  Sign(a) * RoundNearestEven(2 * q + sticky, sh - k - 1)

\* The number a decimal literal num/den denotes (den a power of ten).
FromDecimal(num, den) ==
  IF num = 0 THEN 0
  ELSE LET m == Abs(num) * Pow2(FracBits)
           q == (m * 16) \div den
           sticky == IF (m * 16) % den = 0 THEN 0 ELSE 1
       IN  Sign(num) * RoundNearestEven(2 * q + sticky, -5)

\* Number(s) on the value of an <input type="number">: the empty string is
\* <<>> and converts to 0; a literal is <<num, den>>.
Number(s) == IF s = <<>> THEN 0 ELSE FromDecimal(s[1], s[2])

\* ----------------------------------------------------------- calculateTotals
calculateTotals(price, qty, disc) ==
  LET subtotal == NumMul(price, qty)
      discountAmount == NumDivInt(NumMul(subtotal, disc), 100)
  IN  [subtotal |-> subtotal, totalAfterDiscount |-> NumSub(subtotal, discountAmount)]

\* ------------------------------------------------------------ page state
VARIABLES
  selectedProduct,   \* <<>> for null, <<p>> for a product
  quantity,          \* value of the Quantity field
  discount,          \* value of the Discount (%) field
  customerName,
  phoneNumber,       \* sequence of characters
  orderItems,        \* the cart
  showPaymentModal,
  tenderedAmount,    \* value of the Tendered Amount field
  isLoading,
  errorMessage,
  inFlight,          \* handleSaveOrder calls waiting on the store, with the
                     \* values their closures captured
  orders,            \* the orders table
  order_items,       \* the order_items table
  event,             \* history: the kind of the step just taken
  calcIn,
  calcOut,
  products,          \* the products table
  categories,        \* the categories table
  addProduct,        \* the AddProduct form of each admin session
  addCategory,       \* the AddCategory form
  statOrders,        \* StatisticsPage: the orders it fetched, with their items
  statProducts,      \* StatisticsPage: the products it fetched
  statNow,           \* the time of the render, in hours since 2024-01-01T00:00Z
  statView,          \* the figures of the last render
  variantsTable,     \* the variants table
  recent_barcodes,   \* the recent_barcodes table
  barcode,           \* the state of each of the two barcode generator components
  printingOrderId,   \* OrdersList: 0 for null
  receiptJobs        \* OrdersList: the print windows that were opened

pageVars == <<selectedProduct, quantity, discount, customerName, phoneNumber,
              orderItems, showPaymentModal, tenderedAmount, isLoading, errorMessage>>

storeVars == <<orders, order_items>>

calcVars == <<calcIn, calcOut>>

catalogVars == <<products, categories>>

formVars == <<addProduct, addCategory>>

statVars == <<statOrders, statProducts, statNow, statView>>

printVars == <<variantsTable, recent_barcodes, barcode, printingOrderId, receiptJobs>>

adminVars == <<catalogVars, formVars, statVars, printVars>>

posVars == <<pageVars, inFlight, storeVars, calcVars>>

vars == <<pageVars, inFlight, storeVars, event, calcVars, adminVars>>

Null == "null"

InvalidPhoneMessage == "Invalid phone number format"

InsufficientTenderMessage == "Tendered amount must be greater than or equal to total amount"

FailedSaveMessage == "Failed to save order. Please try again."

\* The products the page has fetched.
Products ==
  { [id |-> 1, name |-> "Shirt", price |-> FromDecimal(500, 100), code |-> "1001"],
    [id |-> 2, name |-> "Pin", price |-> FromDecimal(99, 100), code |-> "1002"] }

Shirt == CHOOSE p \in Products : p.id = 1

\* The rows of the products and categories tables when the page is opened.
StoredProducts ==
  << [id |-> 1, name |-> "Shirt", category_id |-> 1, code |-> "1001",
      price |-> FromDecimal(500, 100), stock |-> FromDecimal(10, 1)],
     [id |-> 2, name |-> "Pin", category_id |-> 1, code |-> "1002",
      price |-> FromDecimal(99, 100), stock |-> FromDecimal(10, 1)] >>

StoredCategories == << [id |-> 1, name |-> "Clothing", description |-> "Garments"] >>

\* Selections and values typed into the form fields.
ProductInputs == { Shirt }

QtyInputs == { <<1, 1>> }

DiscInputs == { <<0, 1>>, <<100, 1>> }

TenderInputs == { <<>>, <<5, 1>> }

\* A wider range of the same, for the cart's arithmetic.
CartQtyInputs == { <<1, 1>>, <<0, 1>> }

CartDiscInputs == { <<0, 1>>, <<7, 1>>, <<100, 1>> }

CartTenderInputs == { <<>>, <<6, 1>> }

NameInputs == { "", "Ali" }

GoodPhone == <<"+", "9", "2", "-", "3", "2", "1", " ", "7", "4", "5", "6", "4", "6", "7">>

BadPhone == <<"a", "b", "c", "1", "2", "3">>

PhoneInputs == { <<>>, GoodPhone, BadPhone }

\* ------------------------------------------------------- derived values
RECURSIVE SumTotalAfterDiscount(_)
SumTotalAfterDiscount(items) ==
  IF items = <<>> THEN 0
  ELSE NumAdd(SumTotalAfterDiscount(SubSeq(items, 1, Len(items) - 1)),
              items[Len(items)].totalAfterDiscount)

RECURSIVE SumSubtotal(_)
SumSubtotal(items) ==
  IF items = <<>> THEN 0
  ELSE NumAdd(SumSubtotal(SubSeq(items, 1, Len(items) - 1)),
              items[Len(items)].subtotal)

RECURSIVE SumDiscount(_)
SumDiscount(items) ==
  IF items = <<>> THEN 0
  ELSE NumAdd(SumDiscount(SubSeq(items, 1, Len(items) - 1)),
              NumSub(items[Len(items)].subtotal, items[Len(items)].totalAfterDiscount))

totalAmount == SumTotalAfterDiscount(orderItems)

change == NumSub(Number(tenderedAmount), totalAmount)

\* ------------------------------------------------------------ cart editing
handleSelectProduct(product) ==
  /\ selectedProduct' = <<product>>
  /\ quantity' = <<1, 1>>
  /\ discount' = <<0, 1>>
  /\ event' = "edit"
  /\ UNCHANGED <<customerName, phoneNumber, orderItems, showPaymentModal,
                 tenderedAmount, isLoading, errorMessage, inFlight, storeVars, calcVars, adminVars>>

setQuantity(v) ==
  /\ quantity' = v
  /\ event' = "edit"
  /\ UNCHANGED <<selectedProduct, discount, customerName, phoneNumber, orderItems,
                 showPaymentModal, tenderedAmount, isLoading, errorMessage, inFlight,
                 storeVars, calcVars, adminVars>>

setDiscount(v) ==
  /\ discount' = v
  /\ event' = "edit"
  /\ UNCHANGED <<selectedProduct, quantity, customerName, phoneNumber, orderItems,
                 showPaymentModal, tenderedAmount, isLoading, errorMessage, inFlight,
                 storeVars, calcVars, adminVars>>

NewItem(product, qty, disc) ==
  LET totals == calculateTotals(product.price, qty, disc)
  IN  [id |-> product.id, name |-> product.name, price |-> product.price,
       code |-> product.code, quantity |-> qty, discount |-> disc,
       subtotal |-> totals.subtotal, totalAfterDiscount |-> totals.totalAfterDiscount]

handleAddItem ==
  /\ selectedProduct # <<>>
  /\ Len(orderItems) < MaxCart
  /\ orderItems' = Append(orderItems,
                          NewItem(selectedProduct[1], Number(quantity), Number(discount)))
  /\ selectedProduct' = <<>>
  /\ event' = "edit"
  /\ UNCHANGED <<quantity, discount, customerName, phoneNumber, showPaymentModal,
                 tenderedAmount, isLoading, errorMessage, inFlight, storeVars, calcVars, adminVars>>

RemoveAt(s, index) == SubSeq(s, 1, index - 1) \o SubSeq(s, index + 1, Len(s))

removeItem(index) ==
  /\ index \in 1..Len(orderItems)
  /\ orderItems' = RemoveAt(orderItems, index)
  /\ event' = "edit"
  /\ UNCHANGED <<selectedProduct, quantity, discount, customerName, phoneNumber,
                 showPaymentModal, tenderedAmount, isLoading, errorMessage, inFlight,
                 storeVars, calcVars, adminVars>>

setCustomerName(v) ==
  /\ customerName' = v
  /\ event' = "edit"
  /\ UNCHANGED <<selectedProduct, quantity, discount, phoneNumber, orderItems,
                 showPaymentModal, tenderedAmount, isLoading, errorMessage, inFlight,
                 storeVars, calcVars, adminVars>>

setPhoneNumber(v) ==
  /\ phoneNumber' = v
  /\ event' = "edit"
  /\ UNCHANGED <<selectedProduct, quantity, discount, customerName, orderItems,
                 showPaymentModal, tenderedAmount, isLoading, errorMessage, inFlight,
                 storeVars, calcVars, adminVars>>

\* The Tendered Amount field is in the modal and disabled while loading.
setTenderedAmount(v) ==
  /\ showPaymentModal
  /\ ~isLoading
  /\ tenderedAmount' = v
  /\ event' = "edit"
  /\ UNCHANGED <<selectedProduct, quantity, discount, customerName, phoneNumber,
                 orderItems, showPaymentModal, isLoading, errorMessage, inFlight,
                 storeVars, calcVars, adminVars>>

\* The modal's X and Cancel buttons.
closePaymentModal ==
  /\ showPaymentModal
  /\ ~isLoading
  /\ showPaymentModal' = FALSE
  /\ event' = "edit"
  /\ UNCHANGED <<selectedProduct, quantity, discount, customerName, phoneNumber,
                 orderItems, tenderedAmount, isLoading, errorMessage, inFlight,
                 storeVars, calcVars, adminVars>>

\* ---------------------------------------------------------------- checkout
PhoneChars == { "0", "1", "2", "3", "4", "5", "6", "7", "8", "9", "+", "-", " " }

\* The pattern with the space left out of the character class.
PhonePattern_noSpace(s) == Len(s) >= 1 /\ \A i \in 1..Len(s) : s[i] \in PhoneChars \ { " " }

\* /^[0-9+\- ]+$/.test(s)
PhonePattern(s) == Len(s) >= 1 /\ \A i \in 1..Len(s) : s[i] \in PhoneChars

PhoneRejected(phone) == phone # <<>> /\ ~PhonePattern(phone)

\* The comparison with <= for <, and with its operands exchanged.
TenderRejected_lte(tendered, total) == Number(tendered) <= total

TenderRejected_reversed(tendered, total) == total < Number(tendered)

TenderRejected(tendered, total) == Number(tendered) < total

\* The row saveOrderToDatabase sends to orders.
OrderHeader ==
  [customer_name |-> IF customerName = "" THEN "Cash Customer" ELSE customerName,
   phone_number |-> phoneNumber,
   total_amount |-> totalAmount,
   subtotal_amount |-> SumSubtotal(orderItems),
   discount_amount |-> SumDiscount(orderItems),
   tendered_amount |-> Number(tenderedAmount),
   change_amount |-> change,
   payment_status |-> "completed"]

\* The row the store keeps: the header with its generated id.
StoredOrder(header, id) ==
  [id |-> id,
   customer_name |-> header.customer_name,
   phone_number |-> header.phone_number,
   total_amount |-> header.total_amount,
   subtotal_amount |-> header.subtotal_amount,
   discount_amount |-> header.discount_amount,
   tendered_amount |-> header.tendered_amount,
   change_amount |-> header.change_amount,
   payment_status |-> header.payment_status]

\* orderItemsToInsert with the id read off the result array instead of its row.
OrderItemRows_noId(items, orderId) ==
  [i \in 1..Len(items) |->
     [order_id |-> 0,
      product_id |-> items[i].id,
      product_name |-> items[i].name,
      price |-> items[i].price,
      quantity |-> items[i].quantity,
      discount_percentage |-> items[i].discount,
      subtotal |-> items[i].subtotal,
      total_after_discount |-> items[i].totalAfterDiscount]]

\* orderItemsToInsert
OrderItemRows(items, orderId) ==
  [i \in 1..Len(items) |->
     [order_id |-> orderId,
      product_id |-> items[i].id,
      product_name |-> items[i].name,
      price |-> items[i].price,
      quantity |-> items[i].quantity,
      discount_percentage |-> items[i].discount,
      subtotal |-> items[i].subtotal,
      total_after_discount |-> items[i].totalAfterDiscount]]

\* handleSaveOrder up to its first await: the two validations, then
\* saveOrderToDatabase issues the orders insert with the values of this render.
handleSaveOrder ==
  IF PhoneRejected(phoneNumber)
  THEN /\ errorMessage' = InvalidPhoneMessage
       /\ UNCHANGED <<isLoading, inFlight>>
  ELSE IF TenderRejected(tenderedAmount, totalAmount)
  THEN /\ errorMessage' = InsufficientTenderMessage
       /\ UNCHANGED <<isLoading, inFlight>>
  ELSE /\ isLoading' = TRUE
       /\ errorMessage' = Null
       /\ inFlight' = Append(inFlight, [pc |-> "orders", header |-> OrderHeader,
                                        orderItems |-> orderItems, orderId |-> 0])

\* The summary's Complete Payment button.
completePaymentClick ==
  /\ orderItems # <<>>
  /\ showPaymentModal' = TRUE
  /\ handleSaveOrder
  /\ event' = "completePayment"
  /\ UNCHANGED <<selectedProduct, quantity, discount, customerName, phoneNumber,
                 orderItems, tenderedAmount, storeVars, calcVars, adminVars>>

\* The modal's Complete Order button.
completeOrderClick ==
  /\ showPaymentModal
  /\ ~(Number(tenderedAmount) < totalAmount \/ isLoading)
  /\ handleSaveOrder
  /\ event' = "completeOrder"
  /\ UNCHANGED <<selectedProduct, quantity, discount, customerName, phoneNumber,
                 orderItems, showPaymentModal, tenderedAmount, storeVars, calcVars, adminVars>>

\* The orders insert returns a row: saveOrderToDatabase goes on to issue the
\* order_items insert.
ordersInsertSucceeds(i) ==
  /\ i \in 1..Len(inFlight)
  /\ inFlight[i].pc = "orders"
  /\ orders' = Append(orders, StoredOrder(inFlight[i].header, Len(orders) + 1))
  /\ inFlight' = [inFlight EXCEPT ![i].pc = "order_items", ![i].orderId = Len(orders) + 1]
  /\ event' = "ordersOk"
  /\ UNCHANGED <<pageVars, order_items, calcVars, adminVars>>

\* The orders error left unchecked: the order_items insert is issued all the same.
ordersInsertFails_ignored(i) ==
  /\ i \in 1..Len(inFlight)
  /\ inFlight[i].pc = "orders"
  /\ inFlight' = [inFlight EXCEPT ![i].pc = "order_items"]
  /\ event' = "ordersFail"
  /\ UNCHANGED <<pageVars, storeVars, calcVars, adminVars>>

\* The orders error without the finally block of handleSaveOrder.
ordersInsertFails_noFinally(i) ==
  /\ i \in 1..Len(inFlight)
  /\ inFlight[i].pc = "orders"
  /\ inFlight' = RemoveAt(inFlight, i)
  /\ event' = "ordersFail"
  /\ UNCHANGED <<pageVars, storeVars, calcVars, adminVars>>

\* The orders insert returns an error: thrown, caught, saveOrderToDatabase
\* returns false, and handleSaveOrder's finally block runs.
ordersInsertFails(i) ==
  /\ i \in 1..Len(inFlight)
  /\ inFlight[i].pc = "orders"
  /\ inFlight' = RemoveAt(inFlight, i)
  /\ isLoading' = FALSE
  /\ event' = "ordersFail"
  /\ UNCHANGED <<selectedProduct, quantity, discount, customerName, phoneNumber,
                 orderItems, showPaymentModal, tenderedAmount, errorMessage,
                 storeVars, calcVars, adminVars>>

\* The rows written with an upsert keyed by product: rows of earlier orders for
\* the same products are replaced.
orderItemsInsertSucceeds_upsert(i) ==
  /\ i \in 1..Len(inFlight)
  /\ inFlight[i].pc = "order_items"
  /\ order_items' =
       SelectSeq(order_items,
                 LAMBDA row : \A k \in 1..Len(inFlight[i].orderItems) :
                                row.product_id # inFlight[i].orderItems[k].id)
         \o OrderItemRows(inFlight[i].orderItems, inFlight[i].orderId)
  /\ inFlight' = RemoveAt(inFlight, i)
  /\ orderItems' = <<>>
  /\ customerName' = ""
  /\ phoneNumber' = <<>>
  /\ tenderedAmount' = <<>>
  /\ showPaymentModal' = FALSE
  /\ isLoading' = FALSE
  /\ event' = "itemsOk"
  /\ UNCHANGED <<selectedProduct, quantity, discount, errorMessage, orders, calcVars, adminVars>>

\* The success branch followed by a decrement of the stock of the sold products.
orderItemsInsertSucceeds_decrementStock(i) ==
  /\ i \in 1..Len(inFlight)
  /\ inFlight[i].pc = "order_items"
  /\ order_items' = order_items \o OrderItemRows(inFlight[i].orderItems, inFlight[i].orderId)
  /\ inFlight' = RemoveAt(inFlight, i)
  /\ orderItems' = <<>>
  /\ customerName' = ""
  /\ phoneNumber' = <<>>
  /\ tenderedAmount' = <<>>
  /\ showPaymentModal' = FALSE
  /\ isLoading' = FALSE
  /\ event' = "itemsOk"
  /\ products' = [k \in 1..Len(products) |->
                    IF \E j \in 1..Len(inFlight[i].orderItems) :
                         inFlight[i].orderItems[j].id = products[k].id
                    THEN [products[k] EXCEPT !.stock = NumSub(@, FromDecimal(1, 1))]
                    ELSE products[k]]
  /\ UNCHANGED <<selectedProduct, quantity, discount, errorMessage, orders, calcVars,
                 categories, formVars, statVars, printVars>>

\* The success branch without its setTenderedAmount('').
orderItemsInsertSucceeds_keepTender(i) ==
  /\ i \in 1..Len(inFlight)
  /\ inFlight[i].pc = "order_items"
  /\ order_items' = order_items \o OrderItemRows(inFlight[i].orderItems, inFlight[i].orderId)
  /\ inFlight' = RemoveAt(inFlight, i)
  /\ orderItems' = <<>>
  /\ customerName' = ""
  /\ phoneNumber' = <<>>
  /\ showPaymentModal' = FALSE
  /\ isLoading' = FALSE
  /\ event' = "itemsOk"
  /\ UNCHANGED <<selectedProduct, quantity, discount, tenderedAmount, errorMessage,
                 orders, calcVars, adminVars>>

\* The order_items insert succeeds: saveOrderToDatabase returns true and
\* handleSaveOrder resets the page.
orderItemsInsertSucceeds(i) ==
  /\ i \in 1..Len(inFlight)
  /\ inFlight[i].pc = "order_items"
  /\ order_items' = order_items \o OrderItemRows(inFlight[i].orderItems, inFlight[i].orderId)
  /\ inFlight' = RemoveAt(inFlight, i)
  /\ orderItems' = <<>>
  /\ customerName' = ""
  /\ phoneNumber' = <<>>
  /\ tenderedAmount' = <<>>
  /\ showPaymentModal' = FALSE
  /\ isLoading' = FALSE
  /\ event' = "itemsOk"
  /\ UNCHANGED <<selectedProduct, quantity, discount, errorMessage, orders, calcVars, adminVars>>

\* The order_items error answered by deleting the header again.
orderItemsInsertFails_rollback(i) ==
  /\ i \in 1..Len(inFlight)
  /\ inFlight[i].pc = "order_items"
  /\ inFlight' = RemoveAt(inFlight, i)
  /\ orders' = SelectSeq(orders, LAMBDA row : row.id # inFlight[i].orderId)
  /\ isLoading' = FALSE
  /\ event' = "itemsFail"
  /\ UNCHANGED <<selectedProduct, quantity, discount, customerName, phoneNumber,
                 orderItems, showPaymentModal, tenderedAmount, errorMessage,
                 order_items, calcVars, adminVars>>

\* The order_items error followed by the resets of the success branch.
orderItemsInsertFails_reset(i) ==
  /\ i \in 1..Len(inFlight)
  /\ inFlight[i].pc = "order_items"
  /\ inFlight' = RemoveAt(inFlight, i)
  /\ orderItems' = <<>>
  /\ customerName' = ""
  /\ phoneNumber' = <<>>
  /\ tenderedAmount' = <<>>
  /\ showPaymentModal' = FALSE
  /\ isLoading' = FALSE
  /\ event' = "itemsFail"
  /\ UNCHANGED <<selectedProduct, quantity, discount, errorMessage, storeVars, calcVars, adminVars>>

\* The order_items insert returns an error: saveOrderToDatabase returns false.
orderItemsInsertFails(i) ==
  /\ i \in 1..Len(inFlight)
  /\ inFlight[i].pc = "order_items"
  /\ inFlight' = RemoveAt(inFlight, i)
  /\ isLoading' = FALSE
  /\ event' = "itemsFail"
  /\ UNCHANGED <<selectedProduct, quantity, discount, customerName, phoneNumber,
                 orderItems, showPaymentModal, tenderedAmount, errorMessage,
                 storeVars, calcVars, adminVars>>

\* ------------------------------------------------- the catalog, edited later
\* The catalog store changes a product's name and price, or drops the product,
\* while the page keeps the list it fetched.
EditedIds == { 1 }

ProductEdits == { [name |-> "Tee", price |-> FromDecimal(600, 100)] }

productEdited(id, edit) ==
  /\ \E k \in 1..Len(products) :
       /\ products[k].id = id
       /\ products[k].name # edit.name
       /\ products' = [products EXCEPT ![k].name = edit.name, ![k].price = edit.price]
  /\ event' = "productEdited"
  /\ UNCHANGED <<posVars, categories, formVars, statVars, printVars>>

productDeleted(id) ==
  /\ \E k \in 1..Len(products) : products[k].id = id
  /\ products' = SelectSeq(products, LAMBDA row : row.id # id)
  /\ event' = "productDeleted"
  /\ UNCHANGED <<posVars, categories, formVars, statVars, printVars>>

\* ------------------------------------------------------------ text fields
\* The value of a text field: white space, a core that neither starts nor ends
\* with white space, white space.  <<before, core, after>> counts the white
\* space on either side.
Text(core) == <<0, core, 0>>

Padded(core) == <<1, core, 1>>

\* s.trim()
trim(t) == t[2]

\* e.target.valueAsNumber || '' on a number field holding v: an empty field is
\* <<>> and gives NaN; NaN and 0 become ''.  The state is <<>> for '' and <<n>>
\* for the number n.
NumberOrEmpty(v) ==
  IF v = <<>> THEN <<>>
  ELSE IF FromDecimal(v[1], v[2]) = 0 THEN <<>>
  ELSE <<FromDecimal(v[1], v[2])>>

NextId(table) ==
  IF table = <<>> THEN 1
  ELSE 1 + (CHOOSE m \in { table[k].id : k \in 1..Len(table) } :
              \A k \in 1..Len(table) : table[k].id <= m)

\* ------------------------------------------------------------- AddProduct
Sessions == { "a", "b" }

FillAllFieldsMessage == "Please fill out all fields"

PositiveNumbersMessage == "Price and stock must be positive numbers"

InvalidCategoryMessage == "Invalid category selected"

BarcodeExistsMessage == "Barcode already exists"

FailedAddMessage == "Failed to add product"

BlankProductForm ==
  [productName |-> Text(""), category |-> "", barcode |-> Text(""),
   isManualBarcode |-> FALSE, price |-> <<>>, stock |-> <<>>,
   isLoading |-> FALSE, error |-> "", pc |-> "idle", categoryId |-> 0]

\* resetForm
resetForm(form) ==
  [form EXCEPT !.productName = Text(""), !.category = "", !.barcode = Text(""),
               !.price = <<>>, !.stock = <<>>, !.isManualBarcode = FALSE]

setProductName(f, v) ==
  /\ ~addProduct[f].isLoading
  /\ addProduct' = [addProduct EXCEPT ![f].productName = v]
  /\ event' = "formEdit"
  /\ UNCHANGED <<posVars, catalogVars, addCategory, statVars, printVars>>

setCategory(f, v) ==
  /\ ~addProduct[f].isLoading
  /\ addProduct' = [addProduct EXCEPT ![f].category = v]
  /\ event' = "formEdit"
  /\ UNCHANGED <<posVars, catalogVars, addCategory, statVars, printVars>>

\* The barcode select and the manual barcode field.
setBarcode(f, v) ==
  /\ ~addProduct[f].isLoading
  /\ addProduct[f].isManualBarcode \/ v = Text(trim(v))
  /\ addProduct' = [addProduct EXCEPT ![f].barcode = v]
  /\ event' = "formEdit"
  /\ UNCHANGED <<posVars, catalogVars, addCategory, statVars, printVars>>

setIsManualBarcode(f) ==
  /\ ~addProduct[f].isLoading
  /\ addProduct' = [addProduct EXCEPT ![f].isManualBarcode = ~@]
  /\ event' = "formEdit"
  /\ UNCHANGED <<posVars, catalogVars, addCategory, statVars, printVars>>

setPrice(f, v) ==
  /\ ~addProduct[f].isLoading
  /\ addProduct' = [addProduct EXCEPT ![f].price = NumberOrEmpty(v)]
  /\ event' = "formEdit"
  /\ UNCHANGED <<posVars, catalogVars, addCategory, statVars, printVars>>

setStock(f, v) ==
  /\ ~addProduct[f].isLoading
  /\ addProduct' = [addProduct EXCEPT ![f].stock = NumberOrEmpty(v)]
  /\ event' = "formEdit"
  /\ UNCHANGED <<posVars, catalogVars, addCategory, statVars, printVars>>

\* The required-field test without the trim.
MissingField_noTrim(form) ==
  \/ form.productName = Text("")
  \/ form.category = ""
  \/ form.barcode = Text("")
  \/ form.price = <<>>
  \/ form.stock = <<>>

MissingField(form) ==
  \/ trim(form.productName) = ""
  \/ form.category = ""
  \/ trim(form.barcode) = ""
  \/ form.price = <<>>
  \/ form.stock = <<>>

NegativeField(form) == form.price[1] < 0 \/ form.stock[1] < 0

\* AddProduct.handleSubmit up to its first await: the two validations, then the
\* category lookup is issued.
AddProduct_handleSubmit(f) ==
  /\ ~addProduct[f].isLoading
  /\ addProduct' =
       IF MissingField(addProduct[f])
       THEN [addProduct EXCEPT ![f].error = FillAllFieldsMessage]
       ELSE IF NegativeField(addProduct[f])
       THEN [addProduct EXCEPT ![f].error = PositiveNumbersMessage]
       ELSE [addProduct EXCEPT ![f].error = "", ![f].isLoading = TRUE, ![f].pc = "category"]
  /\ event' = "submitProduct"
  /\ UNCHANGED <<posVars, catalogVars, addCategory, statVars, printVars>>

\* The catch and finally blocks of handleSubmit.
SubmitFailed(f, message) ==
  [addProduct EXCEPT ![f].error = message, ![f].isLoading = FALSE, ![f].pc = "idle"]

CategoryRows(name) == { k \in 1..Len(categories) : categories[k].name = name }

\* The lookup .eq('name', category).single() answers: one row, or the error of
\* single() for none or several.
categoryLookupReturns(f) ==
  /\ addProduct[f].pc = "category"
  /\ IF Cardinality(CategoryRows(addProduct[f].category)) = 1
     THEN /\ addProduct' =
               [addProduct EXCEPT ![f].pc = "duplicate",
                                  ![f].categoryId =
                                    categories[CHOOSE k \in CategoryRows(addProduct[f].category) : TRUE].id]
          /\ event' = "categoryFound"
     ELSE /\ addProduct' = SubmitFailed(f, InvalidCategoryMessage)
          /\ event' = "categoryMissing"
  /\ UNCHANGED <<posVars, catalogVars, addCategory, statVars, printVars>>

\* The lookup fails in the store.
categoryLookupFails(f) ==
  /\ addProduct[f].pc = "category"
  /\ addProduct' = SubmitFailed(f, InvalidCategoryMessage)
  /\ event' = "categoryError"
  /\ UNCHANGED <<posVars, catalogVars, addCategory, statVars, printVars>>

ProductsWithCode(code) == { k \in 1..Len(products) : products[k].code = code }

\* The count of products with the barcode answers; with a count of 0 the
\* insert is issued.
duplicateCheckReturns(f) ==
  /\ addProduct[f].pc = "duplicate"
  /\ IF Cardinality(ProductsWithCode(trim(addProduct[f].barcode))) > 0
     THEN /\ addProduct' = SubmitFailed(f, BarcodeExistsMessage)
          /\ event' = "duplicateFound"
     ELSE /\ addProduct' = [addProduct EXCEPT ![f].pc = "insert"]
          /\ event' = "duplicateClear"
  /\ UNCHANGED <<posVars, catalogVars, addCategory, statVars, printVars>>

\* The count fails in the store: count is null, only count is read off the
\* answer, and the insert is issued.
duplicateCheckFails(f) ==
  /\ addProduct[f].pc = "duplicate"
  /\ addProduct' = [addProduct EXCEPT ![f].pc = "insert"]
  /\ event' = "duplicateError"
  /\ UNCHANGED <<posVars, catalogVars, addCategory, statVars, printVars>>

NewProduct(form, id) ==
  [id |-> id, name |-> trim(form.productName), category_id |-> form.categoryId,
   code |-> trim(form.barcode), price |-> form.price[1], stock |-> form.stock[1]]

productInsertSucceeds(f) ==
  /\ addProduct[f].pc = "insert"
  /\ products' = Append(products, NewProduct(addProduct[f], NextId(products)))
  /\ addProduct' = [addProduct EXCEPT ![f] = [resetForm(@) EXCEPT !.isLoading = FALSE,
                                                                  !.pc = "idle"]]
  /\ event' = "productInserted"
  /\ UNCHANGED <<posVars, categories, addCategory, statVars, printVars>>

productInsertFails(f) ==
  /\ addProduct[f].pc = "insert"
  /\ addProduct' = SubmitFailed(f, FailedAddMessage)
  /\ event' = "productInsertFailed"
  /\ UNCHANGED <<posVars, catalogVars, addCategory, statVars, printVars>>

\* ------------------------------------------------------------ AddCategory
FillOutAllFieldsAlert == "Please fill out all fields."

CategoryAddedAlert == "Category added successfully!"

FailedAddCategoryAlert == "Failed to add category"

CategoryDeletedAlert == "Category deleted."

FailedDeleteAlert == "Failed to delete. It might be in use."

\* alert holds the text of the last alert shown; target is the category whose
\* deletion is waiting on the store.
BlankCategoryForm ==
  [categoryName |-> Text(""), description |-> Text(""), isLoading |-> FALSE,
   pc |-> "idle", alert |-> "", target |-> ""]

setCategoryName(v) ==
  /\ ~addCategory.isLoading
  /\ addCategory' = [addCategory EXCEPT !.categoryName = v]
  /\ event' = "formEdit"
  /\ UNCHANGED <<posVars, catalogVars, addProduct, statVars, printVars>>

setDescription(v) ==
  /\ ~addCategory.isLoading
  /\ addCategory' = [addCategory EXCEPT !.description = v]
  /\ event' = "formEdit"
  /\ UNCHANGED <<posVars, catalogVars, addProduct, statVars, printVars>>

BlankCategoryField(form) ==
  trim(form.categoryName) = "" \/ trim(form.description) = ""

\* AddCategory.handleSubmit up to its await: the validation, then the insert
\* is issued.
AddCategory_handleSubmit ==
  /\ ~addCategory.isLoading
  /\ addCategory' =
       IF BlankCategoryField(addCategory)
       THEN [addCategory EXCEPT !.alert = FillOutAllFieldsAlert]
       ELSE [addCategory EXCEPT !.isLoading = TRUE, !.pc = "insert"]
  /\ event' = "submitCategory"
  /\ UNCHANGED <<posVars, catalogVars, addProduct, statVars, printVars>>

\* The insert succeeds: the fields are cleared and the list is fetched again.
categoryInsertSucceeds ==
  /\ addCategory.pc = "insert"
  /\ categories' = Append(categories,
                          [id |-> NextId(categories),
                           name |-> trim(addCategory.categoryName),
                           description |-> trim(addCategory.description)])
  /\ addCategory' = [addCategory EXCEPT !.categoryName = Text(""), !.description = Text(""),
                                        !.alert = CategoryAddedAlert,
                                        !.isLoading = FALSE, !.pc = "idle"]
  /\ event' = "categoryInserted"
  /\ UNCHANGED <<posVars, products, addProduct, statVars, printVars>>

categoryInsertFails ==
  /\ addCategory.pc = "insert"
  /\ addCategory' = [addCategory EXCEPT !.alert = FailedAddCategoryAlert,
                                        !.isLoading = FALSE, !.pc = "idle"]
  /\ event' = "categoryInsertFailed"
  /\ UNCHANGED <<posVars, catalogVars, addProduct, statVars, printVars>>

\* handleDeleteCategory with the confirmation accepted, up to its await.
handleDeleteCategory(category) ==
  /\ ~addCategory.isLoading
  /\ CategoryRows(category) # {}
  /\ addCategory' = [addCategory EXCEPT !.isLoading = TRUE, !.pc = "delete",
                                        !.target = category]
  /\ event' = "deleteCategory"
  /\ UNCHANGED <<posVars, catalogVars, addProduct, statVars, printVars>>

categoryDeleteSucceeds ==
  /\ addCategory.pc = "delete"
  /\ categories' = SelectSeq(categories, LAMBDA row : row.name # addCategory.target)
  /\ addCategory' = [addCategory EXCEPT !.alert = CategoryDeletedAlert,
                                        !.isLoading = FALSE, !.pc = "idle", !.target = ""]
  /\ event' = "categoryDeleted"
  /\ UNCHANGED <<posVars, products, addProduct, statVars, printVars>>

categoryDeleteFails ==
  /\ addCategory.pc = "delete"
  /\ addCategory' = [addCategory EXCEPT !.alert = FailedDeleteAlert,
                                        !.isLoading = FALSE, !.pc = "idle", !.target = ""]
  /\ event' = "categoryDeleteFailed"
  /\ UNCHANGED <<posVars, catalogVars, addProduct, statVars, printVars>>

\* ------------------------------------------------------------- Statistics
\* A time is a whole number of hours since 2024-01-01T00:00Z.  new Date(s) and
\* new Date() give such a time; getDate, getMonth and getFullYear read it in
\* the local time zone.
EpochYear == 2024

LocalOffsetHours == 5

IsLeapYear(y) == y % 4 = 0 /\ (y % 100 # 0 \/ y % 400 = 0)

DaysInYear(y) == IF IsLeapYear(y) THEN 366 ELSE 365

\* Months are numbered from 0, as getMonth does.
DaysInMonth(y, m) ==
  IF m = 1 THEN (IF IsLeapYear(y) THEN 29 ELSE 28)
  ELSE IF m \in { 3, 5, 8, 10 } THEN 30
  ELSE 31

LocalDay(t) == (t + LocalOffsetHours) \div 24

RECURSIVE YearOfDay(_, _)
YearOfDay(day, y) ==
  IF day < DaysInYear(y) THEN [year |-> y, day |-> day]
  ELSE YearOfDay(day - DaysInYear(y), y + 1)

RECURSIVE MonthOfDay(_, _, _)
MonthOfDay(day, y, m) ==
  IF day < DaysInMonth(y, m) THEN [month |-> m, date |-> day + 1]
  ELSE MonthOfDay(day - DaysInMonth(y, m), y, m + 1)

getFullYear(t) == YearOfDay(LocalDay(t), EpochYear).year

getMonth(t) ==
  MonthOfDay(YearOfDay(LocalDay(t), EpochYear).day, getFullYear(t), 0).month

getDate(t) ==
  MonthOfDay(YearOfDay(LocalDay(t), EpochYear).day, getFullYear(t), 0).date

\* A stable sort of <<key, value>> pairs, largest key first: what
\* Array.prototype.sort does with the comparator b.key - a.key.  InsertDescending
\* puts x after the last pair whose key is not smaller.
RECURSIVE InsertDescending(_, _)
InsertDescending(s, x) ==
  IF s = <<>> THEN <<x>>
  ELSE IF x[1] > s[Len(s)][1]
  THEN Append(InsertDescending(SubSeq(s, 1, Len(s) - 1), x), s[Len(s)])
  ELSE Append(s, x)

RECURSIVE SortDescending(_)
SortDescending(s) ==
  IF s = <<>> THEN <<>>
  ELSE InsertDescending(SortDescending(SubSeq(s, 1, Len(s) - 1)), s[Len(s)])

\* The same with the comparator a.key - b.key: smallest key first.
RECURSIVE InsertAscending(_, _)
InsertAscending(s, x) ==
  IF s = <<>> THEN <<x>>
  ELSE IF x[1] < s[Len(s)][1]
  THEN Append(InsertAscending(SubSeq(s, 1, Len(s) - 1), x), s[Len(s)])
  ELSE Append(s, x)

RECURSIVE SortAscending(_)
SortAscending(s) ==
  IF s = <<>> THEN <<>>
  ELSE InsertAscending(SortAscending(SubSeq(s, 1, Len(s) - 1)), s[Len(s)])

\* recentSales sorts the orders array itself, newest first, before anything
\* else reads it.
sortedOrders(orders_) ==
  LET keyed == SortDescending([k \in 1..Len(orders_) |-> <<orders_[k].created_at, orders_[k]>>])
  IN  [k \in 1..Len(orders_) |-> keyed[k][2]]

\* The day test without the comparison of the months.
isValidPeriod_noMonth(period, orderDate, now) ==
  IF period = "day"
  THEN getDate(orderDate) = getDate(now) /\ getFullYear(orderDate) = getFullYear(now)
  ELSE IF period = "month"
  THEN getMonth(orderDate) = getMonth(now) /\ getFullYear(orderDate) = getFullYear(now)
  ELSE getFullYear(orderDate) = getFullYear(now)

isValidPeriod(period, orderDate, now) ==
  IF period = "day"
  THEN /\ getDate(orderDate) = getDate(now)
       /\ getMonth(orderDate) = getMonth(now)
       /\ getFullYear(orderDate) = getFullYear(now)
  ELSE IF period = "month"
  THEN getMonth(orderDate) = getMonth(now) /\ getFullYear(orderDate) = getFullYear(now)
  ELSE getFullYear(orderDate) = getFullYear(now)

RECURSIVE calculateSales(_, _, _)
calculateSales(period, orders_, now) ==
  IF orders_ = <<>> THEN 0
  ELSE LET total == calculateSales(period, SubSeq(orders_, 1, Len(orders_) - 1), now)
           order == orders_[Len(orders_)]
       IN  IF isValidPeriod(period, order.created_at, now)
           THEN NumAdd(total, order.total_amount)
           ELSE total

\* orders.flatMap(order => order.items)
RECURSIVE flatMapItems(_)
flatMapItems(orders_) ==
  IF orders_ = <<>> THEN <<>>
  ELSE flatMapItems(SubSeq(orders_, 1, Len(orders_) - 1)) \o orders_[Len(orders_)].items

\* An object with whole-number keys, as the sequence of its <<key, value>>
\* entries in the order Object.entries lists them: ascending by key.
ObjectGet(obj, key) ==
  IF \E k \in 1..Len(obj) : obj[k][1] = key
  THEN obj[CHOOSE k \in 1..Len(obj) : obj[k][1] = key][2]
  ELSE 0

ObjectSet(obj, key, value) ==
  IF \E k \in 1..Len(obj) : obj[k][1] = key
  THEN [k \in 1..Len(obj) |-> IF obj[k][1] = key THEN <<key, value>> ELSE obj[k]]
  ELSE SelectSeq(obj, LAMBDA e : e[1] < key) \o << <<key, value>> >>
         \o SelectSeq(obj, LAMBDA e : e[1] > key)

\* acc[item.product_id] = (acc[item.product_id] || 0) + item.quantity, over the items
RECURSIVE productSales(_)
productSales(items) ==
  IF items = <<>> THEN <<>>
  ELSE LET acc == productSales(SubSeq(items, 1, Len(items) - 1))
           item == items[Len(items)]
       IN  ObjectSet(acc, item.product_id, NumAdd(ObjectGet(acc, item.product_id), item.quantity))

\* The entries sorted with the comparator reversed: a[1] - b[1].
topEntries_ascending(orders_) ==
  LET entries == productSales(flatMapItems(sortedOrders(orders_)))
      keyed == SortAscending([k \in 1..Len(entries) |-> <<entries[k][2], entries[k]>>])
  IN  [k \in 1..Len(entries) |-> keyed[k][2]]

\* Object.entries(productSales).sort((a, b) => b[1] - a[1])
topEntries(orders_) ==
  LET entries == productSales(flatMapItems(sortedOrders(orders_)))
      keyed == SortDescending([k \in 1..Len(entries) |-> <<entries[k][2], entries[k]>>])
  IN  [k \in 1..Len(entries) |-> keyed[k][2]]

NotAvailable == "N/A"

\* products.find(p => p.id === Number(topProductId))?.name || 'N/A'
topProduct(orders_, products_) ==
  IF topEntries(orders_) = <<>> THEN NotAvailable
  ELSE LET found == { k \in 1..Len(products_) : products_[k].id = topEntries(orders_)[1][1] }
       IN  IF found = {} THEN NotAvailable
           ELSE LET name == products_[CHOOSE k \in found : \A j \in found : k <= j].name
                IN  IF name = "" THEN NotAvailable ELSE name

RECURSIVE sumTotalAmount(_)
sumTotalAmount(orders_) ==
  IF orders_ = <<>> THEN 0
  ELSE NumAdd(sumTotalAmount(SubSeq(orders_, 1, Len(orders_) - 1)),
              orders_[Len(orders_)].total_amount)

\* The sum divided by the number of items sold instead of the number of orders.
averageOrderValue_perItem(orders_) ==
  IF Len(flatMapItems(orders_)) > 0
  THEN NumDivInt(sumTotalAmount(sortedOrders(orders_)), Len(flatMapItems(orders_)))
  ELSE 0

averageOrderValue(orders_) ==
  IF Len(orders_) > 0
  THEN NumDivInt(sumTotalAmount(sortedOrders(orders_)), Len(orders_))
  ELSE 0

\* toLocaleString('en-PK') with 2-digit day, month, hour and minute, numeric
\* year and a 12-hour clock: the local date and the time of day to the minute,
\* the hour counted 12, 1, ..., 11 with am or pm.  Instants are whole hours.
formatDateTime(t) ==
  LET hour == (t + LocalOffsetHours) % 24
  IN  [day |-> getDate(t), month |-> getMonth(t) + 1, year |-> getFullYear(t),
       hour |-> IF hour % 12 = 0 THEN 12 ELSE hour % 12, minute |-> 0,
       meridiem |-> IF hour < 12 THEN "am" ELSE "pm"]

\* order.items.map(item => ({...item, orderTime, orderId}))
annotatedItems(order) ==
  [k \in 1..Len(order.items) |->
     [product_id |-> order.items[k].product_id, quantity |-> order.items[k].quantity,
      orderTime |-> formatDateTime(order.created_at), orderId |-> order.id]]

RECURSIVE flatMapAnnotated(_)
flatMapAnnotated(orders_) ==
  IF orders_ = <<>> THEN <<>>
  ELSE annotatedItems(Head(orders_)) \o flatMapAnnotated(Tail(orders_))

slice(s, from, to) == SubSeq(s, from + 1, IF to < Len(s) THEN to ELSE Len(s))

\* recentSales without the slice: the items of every order.
recentSales_noSlice(orders_) == flatMapAnnotated(sortedOrders(orders_))

recentSales(orders_) == flatMapAnnotated(slice(sortedOrders(orders_), 0, RecentLimit))

\* A render of the page once the data is there.
renderStatistics ==
  /\ statView = <<>>
  /\ statNow > 0
  /\ statView' = << [day |-> calculateSales("day", sortedOrders(statOrders), statNow),
                      month |-> calculateSales("month", sortedOrders(statOrders), statNow),
                      year |-> calculateSales("year", sortedOrders(statOrders), statNow),
                      topEntries |-> topEntries(statOrders),
                      topProduct |-> topProduct(statOrders, statProducts),
                      averageOrderValue |-> averageOrderValue(statOrders),
                      recentSales |-> recentSales(statOrders)] >>
  /\ event' = "render"
  /\ UNCHANGED <<posVars, catalogVars, formVars, statOrders, statProducts, statNow, printVars>>

\* ------------------------------------------------ the barcode generators
\* BarcodeGenerator.tsx holds two components with the same state and buttons:
\* BarcodeGeneratorPage prints through a popup window, BarcodeGenerator through
\* a hidden frame.  A print job is a call of handlePrint that went past its
\* guard; jobs[k].dialog tells how the print dialog of the job was closed.
Components == { "BarcodeGeneratorPage", "BarcodeGenerator" }

PrintFailedMessage == "Print failed - please try again"

FailedLoadRecentMessage == "Failed to load recent barcodes"

FailedLoadDataMessage == "Failed to load data"

StoredVariants ==
  << [id |-> "v1", size |-> "M", price |-> FromDecimal(1500, 1)],
     [id |-> "v2", size |-> "L", price |-> FromDecimal(1700, 1)] >>

BlankGenerator ==
  [variants |-> <<>>, customVariants |-> <<>>, isPrinting |-> FALSE, error |-> Null,
   jobs |-> <<>>]

\* handleAddToCustom, the checked rows given as selectedIds.
handleAddToCustom(c, selectedIds) ==
  /\ barcode' = [barcode EXCEPT ![c].customVariants =
                   @ \o SelectSeq(barcode[c].variants, LAMBDA v : v.id \in selectedIds)]
  /\ event' = "edit"
  /\ UNCHANGED <<posVars, catalogVars, formVars, statVars, variantsTable, recent_barcodes,
                 printingOrderId, receiptJobs>>

\* The guard of handlePrint without its test of isPrinting.
PrintGuard_noIsPrinting(c, targetVariants) == Len(targetVariants) = 0

\* The early return of both handlePrint functions (window is defined in the
\* browser).
PrintGuard(c, targetVariants) == Len(targetVariants) = 0 \/ barcode[c].isPrinting

NewJob(pc, targetVariants, clearAfterPrint) ==
  [pc |-> pc, targets |-> targetVariants, clear |-> clearAfterPrint, dialog |-> "none"]

\* BarcodeGeneratorPage.handlePrint up to the registration of the load
\* listener: window.open returns a window or null.
BarcodeGeneratorPage_handlePrint(targetVariants, clearAfterPrint) ==
  LET c == "BarcodeGeneratorPage" IN
  /\ IF PrintGuard(c, targetVariants)
     THEN /\ event' = "printIgnored"
          /\ UNCHANGED barcode
     ELSE \E opened \in BOOLEAN :
            IF opened
            THEN /\ barcode' = [barcode EXCEPT ![c].isPrinting = TRUE, ![c].error = Null,
                                  ![c].jobs = Append(@, NewJob("load", targetVariants, clearAfterPrint))]
                 /\ event' = "printStarted"
            ELSE /\ barcode' = [barcode EXCEPT ![c].isPrinting = FALSE,
                                  ![c].error = PrintFailedMessage]
                 /\ event' = "printNotOpened"
  /\ UNCHANGED <<posVars, catalogVars, formVars, statVars, variantsTable, recent_barcodes,
                 printingOrderId, receiptJobs>>

\* BarcodeGenerator.handlePrint up to its first await: the frame's document is
\* there or not; with the document the 500 ms timer is set.
BarcodeGenerator_handlePrint(targetVariants, clearAfterPrint) ==
  LET c == "BarcodeGenerator" IN
  /\ IF PrintGuard(c, targetVariants)
     THEN /\ event' = "printIgnored"
          /\ UNCHANGED barcode
     ELSE \E printDoc \in BOOLEAN :
            IF printDoc
            THEN /\ barcode' = [barcode EXCEPT ![c].isPrinting = TRUE, ![c].error = Null,
                                  ![c].jobs = Append(@, NewJob("timer", targetVariants, clearAfterPrint))]
                 /\ event' = "printStarted"
            ELSE /\ barcode' = [barcode EXCEPT ![c].isPrinting = FALSE,
                                  ![c].error = PrintFailedMessage]
                 /\ event' = "printNotOpened"
  /\ UNCHANGED <<posVars, catalogVars, formVars, statVars, variantsTable, recent_barcodes,
                 printingOrderId, receiptJobs>>

\* window.print() shows the print dialog and returns when the dialog is closed,
\* after printing or after Cancel, or it throws.
PrintOutcomes == { "printed", "cancelled", "throws" }

\* The load listener of the popup: print() is called; when it returns the
\* recent_barcodes insert is issued, when it throws the finally block runs.
printWindowLoad(i, outcome) ==
  LET c == "BarcodeGeneratorPage" IN
  /\ i \in 1..Len(barcode[c].jobs)
  /\ barcode[c].jobs[i].pc = "load"
  /\ IF outcome = "throws"
     THEN /\ barcode' = [barcode EXCEPT ![c].jobs = RemoveAt(@, i), ![c].isPrinting = FALSE]
          /\ event' = "printThrew"
     ELSE /\ barcode' = [barcode EXCEPT ![c].jobs[i].pc = "insert", ![c].jobs[i].dialog = outcome]
          /\ event' = "insertIssued"
  /\ UNCHANGED <<posVars, catalogVars, formVars, statVars, variantsTable, recent_barcodes,
                 printingOrderId, receiptJobs>>

\* The 500 ms timer of the frame: print() throws, which resolves the promise
\* with false, or the print dialog is shown.
printTimerFires(i, throws) ==
  LET c == "BarcodeGenerator" IN
  /\ i \in 1..Len(barcode[c].jobs)
  /\ barcode[c].jobs[i].pc = "timer"
  /\ IF throws
     THEN /\ barcode' = [barcode EXCEPT ![c].jobs = RemoveAt(@, i), ![c].isPrinting = FALSE]
          /\ event' = "printThrew"
     ELSE /\ barcode' = [barcode EXCEPT ![c].jobs[i].pc = "dialog"]
          /\ event' = "printDialog"
  /\ UNCHANGED <<posVars, catalogVars, formVars, statVars, variantsTable, recent_barcodes,
                 printingOrderId, receiptJobs>>

\* afterprint: fired when the print dialog is closed, after printing or after
\* Cancel.  The promise resolves with true and the insert is issued.
handlePrintComplete(i, outcome) ==
  LET c == "BarcodeGenerator" IN
  /\ i \in 1..Len(barcode[c].jobs)
  /\ barcode[c].jobs[i].pc = "dialog"
  /\ outcome \in { "printed", "cancelled" }
  /\ barcode' = [barcode EXCEPT ![c].jobs[i].pc = "insert", ![c].jobs[i].dialog = outcome]
  /\ event' = "insertIssued"
  /\ UNCHANGED <<posVars, catalogVars, formVars, statVars, variantsTable, recent_barcodes,
                 printingOrderId, receiptJobs>>

\* The recent_barcodes insert succeeds; the lists are read again
\* (fetchRecentBarcodes, fetchData).
recentBarcodesInsertSucceeds(c, i) ==
  /\ i \in 1..Len(barcode[c].jobs)
  /\ barcode[c].jobs[i].pc = "insert"
  /\ recent_barcodes' = recent_barcodes \o barcode[c].jobs[i].targets
  /\ barcode' = [barcode EXCEPT ![c].jobs[i].pc = "fetch"]
  /\ event' = "insertOk"
  /\ UNCHANGED <<posVars, catalogVars, formVars, statVars, variantsTable,
                 printingOrderId, receiptJobs>>

\* The recent_barcodes insert returns an error: thrown; the popup version
\* swallows it, the frame version sets the error message; both clear isPrinting.
recentBarcodesInsertFails(c, i) ==
  /\ i \in 1..Len(barcode[c].jobs)
  /\ barcode[c].jobs[i].pc = "insert"
  /\ barcode' = [barcode EXCEPT ![c].jobs = RemoveAt(@, i), ![c].isPrinting = FALSE,
                   ![c].error = IF c = "BarcodeGenerator" THEN PrintFailedMessage ELSE @]
  /\ event' = "insertFail"
  /\ UNCHANGED <<posVars, catalogVars, formVars, statVars, variantsTable, recent_barcodes,
                 printingOrderId, receiptJobs>>

\* The lists after the read that follows the insert: fetchData of the frame
\* version replaces variants by the rows of the table; a failed read sets the
\* component's error message and changes no list.
AfterFetch(c, ok) ==
  [barcode[c] EXCEPT
     !.variants = IF ok /\ c = "BarcodeGenerator" THEN variantsTable ELSE @,
     !.error = IF ok THEN @
               ELSE IF c = "BarcodeGenerator" THEN FailedLoadDataMessage
               ELSE FailedLoadRecentMessage]

\* The read returns: with clearAfterPrint both lists are emptied; isPrinting is
\* cleared.
fetchReturns(c, i, ok) ==
  /\ i \in 1..Len(barcode[c].jobs)
  /\ barcode[c].jobs[i].pc = "fetch"
  /\ barcode' = [barcode EXCEPT ![c] =
       [AfterFetch(c, ok) EXCEPT
          !.customVariants = IF barcode[c].jobs[i].clear THEN <<>> ELSE @,
          !.variants = IF barcode[c].jobs[i].clear THEN <<>> ELSE @,
          !.isPrinting = FALSE,
          !.jobs = RemoveAt(@, i)]]
  /\ event' = "printDone"
  /\ UNCHANGED <<posVars, catalogVars, formVars, statVars, variantsTable, recent_barcodes,
                 printingOrderId, receiptJobs>>

\* ------------------------------------------------- receipts (OrdersList)
\* handlePrint(order) up to the registration of onload: the popup is blocked
\* (alert and return), writing the receipt throws (catch), or the window waits
\* for its load event.
OrdersList_handlePrint(orderId, opening) ==
  /\ printingOrderId # orderId
  /\ opening \in { "blocked", "throws", "opened" }
  /\ printingOrderId' = IF opening = "throws" THEN 0 ELSE orderId
  /\ receiptJobs' = IF opening = "opened"
                    THEN Append(receiptJobs, [pc |-> "load", orderId |-> orderId])
                    ELSE receiptJobs
  /\ event' = IF opening = "blocked" THEN "receiptBlocked"
              ELSE IF opening = "throws" THEN "receiptThrew" ELSE "receiptStarted"
  /\ UNCHANGED <<posVars, catalogVars, formVars, statVars, variantsTable, recent_barcodes, barcode>>

\* onload sets the 300 ms timer.
receiptWindowLoad(i) ==
  /\ i \in 1..Len(receiptJobs)
  /\ receiptJobs[i].pc = "load"
  /\ receiptJobs' = [receiptJobs EXCEPT ![i].pc = "timer"]
  /\ event' = "receiptLoaded"
  /\ UNCHANGED <<posVars, catalogVars, formVars, statVars, variantsTable, recent_barcodes,
                 barcode, printingOrderId>>

\* The timer: print(), close(), setPrintingOrderId(null); a print() that throws
\* ends the callback before the reset.
receiptTimerFires(i, throws) ==
  /\ i \in 1..Len(receiptJobs)
  /\ receiptJobs[i].pc = "timer"
  /\ receiptJobs' = RemoveAt(receiptJobs, i)
  /\ printingOrderId' = IF throws THEN printingOrderId ELSE 0
  /\ event' = IF throws THEN "receiptPrintThrew" ELSE "receiptPrinted"
  /\ UNCHANGED <<posVars, catalogVars, formVars, statVars, variantsTable, recent_barcodes, barcode>>

\* ----------------------------------------------------------- specifications
NoCalc == [price |-> <<>>, qty |-> <<>>, disc |-> <<>>]

InitPage ==
  /\ selectedProduct = <<>>
  /\ quantity = <<1, 1>>
  /\ discount = <<0, 1>>
  /\ customerName = ""
  /\ phoneNumber = <<>>
  /\ orderItems = <<>>
  /\ showPaymentModal = FALSE
  /\ tenderedAmount = <<>>
  /\ isLoading = FALSE
  /\ errorMessage = Null
  /\ inFlight = <<>>
  /\ orders = <<>>
  /\ order_items = <<>>
  /\ event = "init"

InitForms ==
  /\ addProduct = [f \in Sessions |-> BlankProductForm]
  /\ addCategory = BlankCategoryForm

InitCatalog ==
  /\ products = StoredProducts
  /\ categories = StoredCategories

InitPrinting ==
  /\ variantsTable = StoredVariants
  /\ recent_barcodes = <<>>
  /\ barcode = [c \in Components |-> BlankGenerator]
  /\ printingOrderId = 0
  /\ receiptJobs = <<>>

InitStatistics ==
  /\ statOrders = <<>>
  /\ statProducts = <<>>
  /\ statNow = 0
  /\ statView = <<>>

InitAdmin == InitCatalog /\ InitForms /\ InitStatistics /\ InitPrinting

Init ==
  /\ InitPage
  /\ InitAdmin
  /\ calcIn = NoCalc
  /\ calcOut = <<>>

\* A checkout click is followed while the headers written and requested stay
\* below the limit, or when handleSaveOrder rejects it and starts no save.
WithinLimit(limit) ==
  \/ PhoneRejected(phoneNumber)
  \/ TenderRejected(tenderedAmount, totalAmount)
  \/ Len(orders) + Cardinality({i \in 1..Len(inFlight) : inFlight[i].pc = "orders"}) < limit

Next ==
  \/ \E product \in ProductInputs : handleSelectProduct(product)
  \/ \E v \in QtyInputs : setQuantity(v)
  \/ \E v \in DiscInputs : setDiscount(v)
  \/ handleAddItem
  \/ \E index \in 1..MaxCart : removeItem(index)
  \/ \E v \in NameInputs : setCustomerName(v)
  \/ \E v \in PhoneInputs : setPhoneNumber(v)
  \/ \E v \in TenderInputs : setTenderedAmount(v)
  \/ closePaymentModal
  \/ WithinLimit(MaxOrders) /\ completePaymentClick
  \/ WithinLimit(MaxOrders) /\ completeOrderClick
  \/ \E i \in 1..MaxOrders : ordersInsertSucceeds(i)
  \/ \E i \in 1..MaxOrders : ordersInsertFails(i)
  \/ \E i \in 1..MaxOrders : orderItemsInsertSucceeds(i)
  \/ \E i \in 1..MaxOrders : orderItemsInsertFails(i)

Spec == Init /\ [][Next]_vars

\* calculateTotals on its own, over a range of prices, quantities and discounts.
InitTotals ==
  /\ InitPage
  /\ InitAdmin
  /\ calcIn \in [price : {<<c, 100>> : c \in 0..MaxPriceCents},
                 qty : {<<q, 1>> : q \in 1..MaxQty},
                 disc : {<<d, 1>> : d \in 0..MaxDiscount}]
  /\ calcOut = <<>>

ApplyCalculateTotals ==
  /\ calcOut = <<>>
  /\ calcIn # NoCalc
  /\ calcOut' = <<calculateTotals(Number(calcIn.price), Number(calcIn.qty), Number(calcIn.disc))>>
  /\ UNCHANGED <<calcIn, pageVars, inFlight, storeVars, event, adminVars>>

NextTotals == ApplyCalculateTotals

SpecTotals == InitTotals /\ [][NextTotals]_vars

\* The cart's arithmetic over the wider inputs: the page is operated while no
\* save is in flight and no order has been written yet.
CartIdle == inFlight = <<>> /\ orders = <<>>

NextCart ==
  \/ CartIdle /\ \E product \in Products : handleSelectProduct(product)
  \/ CartIdle /\ \E v \in CartQtyInputs : setQuantity(v)
  \/ CartIdle /\ \E v \in CartDiscInputs : setDiscount(v)
  \/ CartIdle /\ handleAddItem
  \/ CartIdle /\ \E index \in 1..MaxCart : removeItem(index)
  \/ CartIdle /\ \E v \in CartTenderInputs : setTenderedAmount(v)
  \/ CartIdle /\ closePaymentModal
  \/ CartIdle /\ WithinLimit(MaxOrders) /\ completePaymentClick
  \/ CartIdle /\ WithinLimit(MaxOrders) /\ completeOrderClick
  \/ \E i \in 1..MaxOrders : ordersInsertSucceeds(i)
  \/ \E i \in 1..MaxOrders : ordersInsertFails(i)
  \/ \E i \in 1..MaxOrders : orderItemsInsertSucceeds(i)
  \/ \E i \in 1..MaxOrders : orderItemsInsertFails(i)

SpecCart == Init /\ [][NextCart]_vars

\* Checkouts overlapping each other and the editing of the cart: one header more
\* than in Spec, the customer fields left alone.
MaxOverlap == MaxOrders + 1

NextOverlap ==
  \/ \E product \in ProductInputs : handleSelectProduct(product)
  \/ \E v \in DiscInputs : setDiscount(v)
  \/ handleAddItem
  \/ \E index \in 1..MaxCart : removeItem(index)
  \/ \E v \in TenderInputs : setTenderedAmount(v)
  \/ closePaymentModal
  \/ WithinLimit(MaxOverlap) /\ completePaymentClick
  \/ WithinLimit(MaxOverlap) /\ completeOrderClick
  \/ \E i \in 1..MaxOverlap : ordersInsertSucceeds(i)
  \/ \E i \in 1..MaxOverlap : ordersInsertFails(i)
  \/ \E i \in 1..MaxOverlap : orderItemsInsertSucceeds(i)
  \/ \E i \in 1..MaxOverlap : orderItemsInsertFails(i)

SpecOverlap == Init /\ [][NextOverlap]_vars

\* The point of sale with a store that answers every call it was sent.
ordersInsertResponds ==
  \E i \in 1..MaxOrders : ordersInsertSucceeds(i) \/ ordersInsertFails(i)

orderItemsInsertResponds ==
  \E i \in 1..MaxOrders : orderItemsInsertSucceeds(i) \/ orderItemsInsertFails(i)

SpecResponding ==
  Init /\ [][Next]_vars /\ WF_vars(ordersInsertResponds) /\ WF_vars(orderItemsInsertResponds)

\* Overlapping checkouts while the catalog is edited.
NextCatalog ==
  \/ \E product \in ProductInputs : handleSelectProduct(product)
  \/ handleAddItem
  \/ \E index \in 1..MaxCart : removeItem(index)
  \/ \E v \in TenderInputs : setTenderedAmount(v)
  \/ closePaymentModal
  \/ WithinLimit(MaxOverlap) /\ completePaymentClick
  \/ WithinLimit(MaxOverlap) /\ completeOrderClick
  \/ \E i \in 1..MaxOverlap : ordersInsertSucceeds(i)
  \/ \E i \in 1..MaxOverlap : ordersInsertFails(i)
  \/ \E i \in 1..MaxOverlap : orderItemsInsertSucceeds(i)
  \/ \E i \in 1..MaxOverlap : orderItemsInsertFails(i)
  \/ \E id \in EditedIds, edit \in ProductEdits : productEdited(id, edit)
  \/ \E id \in EditedIds : productDeleted(id)

SpecCatalog == Init /\ [][NextCatalog]_vars

\* Two admin sessions adding products from the barcode select, with a store
\* that answers every read.
NameInputs2 == { Text("Cap") }

CategoryOptions == { "Clothing" }

BarcodeOptions == { Text("1001"), Text("1003") }

AmountInputs == { <<5, 1>> }

\* A submission is followed while the products written and requested stay
\* below the limit, or when handleSubmit rejects it.
ProductsWithinLimit(f, limit) ==
  IF MissingField(addProduct[f]) THEN TRUE
  ELSE IF NegativeField(addProduct[f]) THEN TRUE
  ELSE Len(products) + Cardinality({ g \in Sessions : addProduct[g].pc # "idle" }) < limit

NextAddProduct ==
  \/ \E f \in Sessions, v \in NameInputs2 : setProductName(f, v)
  \/ \E f \in Sessions, v \in CategoryOptions : setCategory(f, v)
  \/ \E f \in Sessions, v \in BarcodeOptions : setBarcode(f, v)
  \/ \E f \in Sessions, v \in AmountInputs : setPrice(f, v)
  \/ \E f \in Sessions, v \in AmountInputs : setStock(f, v)
  \/ \E f \in Sessions : ProductsWithinLimit(f, MaxProducts) /\ AddProduct_handleSubmit(f)
  \/ \E f \in Sessions : categoryLookupReturns(f)
  \/ \E f \in Sessions : duplicateCheckReturns(f)
  \/ \E f \in Sessions : productInsertSucceeds(f)
  \/ \E f \in Sessions : productInsertFails(f)

SpecAddProduct == Init /\ [][NextAddProduct]_vars

\* One session filling the AddProduct form with any of its field values, and
\* the AddCategory form.
OneSession == "a"

TextInputs == { Padded(""), Text("Cap") }

ManualBarcodeInputs == { Padded(""), Padded("1003") }

NumberFieldInputs == { <<>>, <<0, 1>>, <<-1, 1>>, <<5, 1>> }

CategoryNameInputs == { Padded(""), Padded("Toys") }

DescriptionInputs == { Padded(""), Text("Fun") }

CategoryNames == { "Clothing", "Toys" }

CategoriesWithinLimit ==
  BlankCategoryField(addCategory) \/ Len(categories) < MaxCategories

\* One form is worked on at a time: the other one is blank and waits on nothing.
ProductFormAtRest ==
  addProduct[OneSession] = [BlankProductForm EXCEPT !.error = addProduct[OneSession].error,
                                                      !.categoryId = addProduct[OneSession].categoryId]

CategoryFormAtRest ==
  addCategory = [BlankCategoryForm EXCEPT !.alert = addCategory.alert]

NextForms ==
  \/ CategoryFormAtRest /\ \E v \in TextInputs : setProductName(OneSession, v)
  \/ CategoryFormAtRest /\ \E v \in CategoryNames \cup { "" } : setCategory(OneSession, v)
  \/ CategoryFormAtRest
       /\ \E v \in BarcodeOptions \cup ManualBarcodeInputs : setBarcode(OneSession, v)
  \/ CategoryFormAtRest /\ setIsManualBarcode(OneSession)
  \/ CategoryFormAtRest /\ \E v \in NumberFieldInputs : setPrice(OneSession, v)
  \/ CategoryFormAtRest /\ \E v \in NumberFieldInputs : setStock(OneSession, v)
  \/ CategoryFormAtRest
       /\ ProductsWithinLimit(OneSession, MaxProducts - 1)
       /\ AddProduct_handleSubmit(OneSession)
  \/ categoryLookupReturns(OneSession)
  \/ categoryLookupFails(OneSession)
  \/ duplicateCheckReturns(OneSession)
  \/ duplicateCheckFails(OneSession)
  \/ productInsertSucceeds(OneSession)
  \/ productInsertFails(OneSession)
  \/ ProductFormAtRest /\ \E v \in CategoryNameInputs : setCategoryName(v)
  \/ ProductFormAtRest /\ \E v \in DescriptionInputs : setDescription(v)
  \/ ProductFormAtRest /\ CategoriesWithinLimit /\ AddCategory_handleSubmit
  \/ categoryInsertSucceeds
  \/ categoryInsertFails
  \/ ProductFormAtRest /\ \E category \in CategoryNames : handleDeleteCategory(category)
  \/ categoryDeleteSucceeds
  \/ categoryDeleteFails

SpecForms == Init /\ [][NextForms]_vars

\* The statistics page over a range of fetched orders and render times.
\* The hour of a local calendar date and time of day.
RECURSIVE DaysBeforeYear(_)
DaysBeforeYear(y) == IF y <= EpochYear THEN 0 ELSE DaysBeforeYear(y - 1) + DaysInYear(y - 1)

RECURSIVE DaysBeforeMonth(_, _)
DaysBeforeMonth(y, m) == IF m = 0 THEN 0 ELSE DaysBeforeMonth(y, m - 1) + DaysInMonth(y, m - 1)

LocalTime(y, m, d, h) ==
  (DaysBeforeYear(y) + DaysBeforeMonth(y, m) + d - 1) * 24 + h - LocalOffsetHours

OrderTimes ==
  { LocalTime(2024, 0, 15, 10), LocalTime(2024, 0, 21, 1),
    LocalTime(2024, 1, 1, 10), LocalTime(2025, 0, 20, 9) }

RenderTimes == { LocalTime(2024, 0, 20, 17), LocalTime(2024, 1, 15, 9) }

OrderAmounts == { FromDecimal(100, 1), FromDecimal(300, 1) }

ItemLists ==
  { << [product_id |-> 2, quantity |-> FromDecimal(1, 1)],
       [product_id |-> 1, quantity |-> FromDecimal(1, 1)] >>,
    << [product_id |-> 1, quantity |-> FromDecimal(2, 1)] >>,
    << [product_id |-> 2, quantity |-> FromDecimal(1, 1)] >> }

FetchedOrders ==
  [total_amount : OrderAmounts, created_at : OrderTimes, items : ItemLists]

\* The rows of a fetch carry distinct ids.
WithIds(rows) ==
  [k \in 1..Len(rows) |->
     [id |-> k, total_amount |-> rows[k].total_amount,
      created_at |-> rows[k].created_at, items |-> rows[k].items]]

FetchedProducts ==
  { << [id |-> 1, name |-> "Shirt"], [id |-> 2, name |-> "Pin"] >>,
    << [id |-> 2, name |-> "Pin"] >> }

InitStatisticsPage ==
  /\ InitPage
  /\ InitCatalog
  /\ InitForms
  /\ InitPrinting
  /\ calcIn = NoCalc
  /\ calcOut = <<>>
  /\ statOrders \in { WithIds(rows) : rows \in UNION { [1..n -> FetchedOrders] : n \in 0..MaxStatOrders } }
  /\ statProducts \in FetchedProducts
  /\ statNow \in RenderTimes
  /\ statView = <<>>

NextStatistics == renderStatistics

SpecStatistics == InitStatisticsPage /\ [][NextStatistics]_vars

\* The page with up to MaxRecentOrders orders, some of them created in the
\* same hour, with one or two items each.
RecentTimes ==
  { LocalTime(2024, 0, 15, 0), LocalTime(2024, 0, 15, 12), LocalTime(2024, 1, 1, 23) }

RecentItemLists ==
  { << [product_id |-> 1, quantity |-> FromDecimal(1, 1)] >>,
    << [product_id |-> 2, quantity |-> FromDecimal(1, 1)],
       [product_id |-> 1, quantity |-> FromDecimal(2, 1)] >> }

RecentOrders ==
  [total_amount : { FromDecimal(100, 1) }, created_at : RecentTimes, items : RecentItemLists]

InitRecentSales ==
  /\ InitPage
  /\ InitCatalog
  /\ InitForms
  /\ InitPrinting
  /\ calcIn = NoCalc
  /\ calcOut = <<>>
  /\ statOrders \in { WithIds(rows) : rows \in UNION { [1..n -> RecentOrders] : n \in 0..MaxRecentOrders } }
  /\ statProducts = << [id |-> 1, name |-> "Shirt"], [id |-> 2, name |-> "Pin"] >>
  /\ statNow = LocalTime(2024, 1, 15, 9)
  /\ statView = <<>>

SpecRecentSales == InitRecentSales /\ [][NextStatistics]_vars

\* The barcode generators after their first fetch, one of the two in use.
FetchedGenerator == [BlankGenerator EXCEPT !.variants = StoredVariants]

InitBarcode ==
  /\ InitPage
  /\ InitCatalog
  /\ InitForms
  /\ InitStatistics
  /\ calcIn = NoCalc
  /\ calcOut = <<>>
  /\ variantsTable = StoredVariants
  /\ recent_barcodes = <<>>
  /\ barcode = [c \in Components |-> FetchedGenerator]
  /\ printingOrderId = 0
  /\ receiptJobs = <<>>

OnlyInUse(c) == \A d \in Components \ {c} : barcode[d] = FetchedGenerator

SelectedIdSets == { {"v1"}, {"v1", "v2"} }

\* The arguments the buttons pass: one row, Print All, Print All Custom.
PrintCalls(c) ==
  { <<(<<barcode[c].variants[k]>>), FALSE>> : k \in 1..Len(barcode[c].variants) }
    \cup { <<(<<barcode[c].customVariants[k]>>), FALSE>> : k \in 1..Len(barcode[c].customVariants) }
    \cup { <<barcode[c].variants, TRUE>>, <<barcode[c].customVariants, TRUE>> }

RECURSIVE PendingRows(_)
PendingRows(jobs) ==
  IF jobs = <<>> THEN 0 ELSE Len(Head(jobs).targets) + PendingRows(Tail(jobs))

BarcodesWithinLimit(c, targetVariants) ==
  /\ OnlyInUse(c)
  /\ Len(recent_barcodes) + PendingRows(barcode[c].jobs) + Len(targetVariants) <= MaxRecentBarcodes

NextBarcode ==
  \/ \E c \in Components, ids \in SelectedIdSets :
       /\ OnlyInUse(c)
       /\ Len(barcode[c].customVariants) + Cardinality(ids) <= MaxCustomVariants
       /\ handleAddToCustom(c, ids)
  \/ \E call \in PrintCalls("BarcodeGeneratorPage") :
       /\ BarcodesWithinLimit("BarcodeGeneratorPage", call[1])
       /\ BarcodeGeneratorPage_handlePrint(call[1], call[2])
  \/ \E call \in PrintCalls("BarcodeGenerator") :
       /\ BarcodesWithinLimit("BarcodeGenerator", call[1])
       /\ BarcodeGenerator_handlePrint(call[1], call[2])
  \/ \E i \in 1..MaxPrintJobs, outcome \in PrintOutcomes : printWindowLoad(i, outcome)
  \/ \E i \in 1..MaxPrintJobs, throws \in BOOLEAN : printTimerFires(i, throws)
  \/ \E i \in 1..MaxPrintJobs, outcome \in { "printed", "cancelled" } : handlePrintComplete(i, outcome)
  \/ \E c \in Components, i \in 1..MaxPrintJobs : recentBarcodesInsertSucceeds(c, i)
  \/ \E c \in Components, i \in 1..MaxPrintJobs : recentBarcodesInsertFails(c, i)
  \/ \E c \in Components, i \in 1..MaxPrintJobs, ok \in BOOLEAN : fetchReturns(c, i, ok)

SpecBarcode == InitBarcode /\ [][NextBarcode]_vars

\* The same with a store that answers and timers that fire; the load event of
\* the popup and the afterprint event of the frame come from the browser and
\* may stay away.
SpecBarcodeResponding ==
  /\ InitBarcode
  /\ [][NextBarcode]_vars
  /\ WF_vars(\E i \in 1..MaxPrintJobs, throws \in BOOLEAN : printTimerFires(i, throws))
  /\ WF_vars(\E c \in Components, i \in 1..MaxPrintJobs :
               recentBarcodesInsertSucceeds(c, i) \/ recentBarcodesInsertFails(c, i))
  /\ WF_vars(\E c \in Components, i \in 1..MaxPrintJobs, ok \in BOOLEAN : fetchReturns(c, i, ok))

\* The order history with its print buttons.
ReceiptOrderIds == { 1, 2, 3 }

NextReceipts ==
  \/ \E orderId \in ReceiptOrderIds, opening \in { "blocked", "throws", "opened" } :
       /\ Len(receiptJobs) < MaxReceiptJobs
       /\ OrdersList_handlePrint(orderId, opening)
  \/ \E i \in 1..MaxReceiptJobs : receiptWindowLoad(i)
  \/ \E i \in 1..MaxReceiptJobs, throws \in BOOLEAN : receiptTimerFires(i, throws)

\* Every opened window gets its load event and every timer fires.
SpecReceipts ==
  /\ Init
  /\ [][NextReceipts]_vars
  /\ WF_vars(\E i \in 1..MaxReceiptJobs : receiptWindowLoad(i))
  /\ WF_vars(\E i \in 1..MaxReceiptJobs, throws \in BOOLEAN : receiptTimerFires(i, throws))

\* ------------------------------------------------------------- properties
IsAttempt(e) == e \in { "completePayment", "completeOrder" }

Digits == { "0", "1", "2", "3", "4", "5", "6", "7", "8", "9" }

\* A phone number holding a character other than a digit, '+', '-' or space.
Malformed(phone) == \E i \in 1..Len(phone) : phone[i] \notin Digits \cup { "+", "-", " " }

NoInsertIssued == inFlight' = inFlight /\ orders' = orders /\ order_items' = order_items

One == FromDecimal(1, 1)

Hundred == FromDecimal(100, 1)

\* C1 as stated: every checkout attempt with tendered < total ends with the
\* insufficient-tender message and issues no insert; with tendered = total and a
\* valid or empty phone number the orders insert goes out with change_amount 0.
C1_Orig ==
  [][IsAttempt(event') =>
       /\ Number(tenderedAmount) < totalAmount =>
            /\ errorMessage' = InsufficientTenderMessage
            /\ NoInsertIssued
       /\ (Number(tenderedAmount) = totalAmount /\ ~Malformed(phoneNumber)) =>
            /\ Len(inFlight') = Len(inFlight) + 1
            /\ inFlight'[Len(inFlight')].pc = "orders"
            /\ inFlight'[Len(inFlight')].header.change_amount = 0]_vars

\* C1 amended: a checkout attempt with tendered < total issues no insert and ends
\* with the insufficient-tender message when the phone number is empty or well
\* formed, and with the invalid-phone message when it is malformed; with
\* tendered = total and a valid or empty phone number the orders insert goes out
\* with change_amount 0, and every stored header with tendered = total has
\* change_amount 0.
C1_InsufficientTenderRejected ==
  /\ [][IsAttempt(event') =>
          /\ Number(tenderedAmount) < totalAmount =>
               /\ errorMessage' = IF Malformed(phoneNumber)
                                  THEN InvalidPhoneMessage
                                  ELSE InsufficientTenderMessage
               /\ NoInsertIssued
          /\ (Number(tenderedAmount) = totalAmount /\ ~Malformed(phoneNumber)) =>
               /\ Len(inFlight') = Len(inFlight) + 1
               /\ inFlight'[Len(inFlight')].pc = "orders"
               /\ inFlight'[Len(inFlight')].header.total_amount = totalAmount
               /\ inFlight'[Len(inFlight')].header.change_amount = 0
               /\ errorMessage' = Null]_vars
  /\ [](\A i \in 1..Len(orders) :
          orders[i].tendered_amount = orders[i].total_amount => orders[i].change_amount = 0)

\* An order paid with the exact amount is stored, and a later attempt with too
\* little tendered has just been rejected.
C1_Witness ==
  /\ IsAttempt(event)
  /\ Number(tenderedAmount) < totalAmount
  /\ errorMessage = InsufficientTenderMessage
  /\ inFlight = <<>>
  /\ \E i \in 1..Len(orders) :
       /\ orders[i].total_amount > 0
       /\ orders[i].tendered_amount = orders[i].total_amount
       /\ orders[i].change_amount = 0

\* C2: every header in the orders table has tendered_amount >= total_amount,
\* change_amount = tendered_amount - total_amount, and change_amount >= 0.
C2_TenderCoversTotal ==
  \A i \in 1..Len(orders) :
    /\ orders[i].tendered_amount >= orders[i].total_amount
    /\ orders[i].change_amount = NumSub(orders[i].tendered_amount, orders[i].total_amount)
    /\ orders[i].change_amount >= 0

\* A header with change to give back is stored.
C2_Witness ==
  \E i \in 1..Len(orders) :
    /\ orders[i].tendered_amount > orders[i].total_amount
    /\ orders[i].change_amount > 0

\* C3: a checkout attempt with a malformed phone number sets the invalid-phone
\* message and issues no insert; an empty phone number, or one of digits, '+',
\* '-' and spaces only, is not rejected by the phone check.
C3_PhoneValidation ==
  [][IsAttempt(event') =>
       /\ Malformed(phoneNumber) =>
            /\ errorMessage' = InvalidPhoneMessage
            /\ NoInsertIssued
       /\ ~Malformed(phoneNumber) => errorMessage' # InvalidPhoneMessage]_vars

\* An order with the phone number "+92-321 7456467" is stored, and a later
\* attempt with "abc123" has just been rejected.
C3_Witness ==
  /\ IsAttempt(event)
  /\ phoneNumber = BadPhone
  /\ errorMessage = InvalidPhoneMessage
  /\ inFlight = <<>>
  /\ \E i \in 1..Len(orders) : orders[i].phone_number = GoodPhone

\* C4 as stated: for price >= 0, quantity >= 1 and discount in 0..100,
\* calculateTotals returns subtotal = price * quantity and totalAfterDiscount =
\* subtotal - subtotal * discount / 100, with 0 <= totalAfterDiscount <= subtotal.
C4_Orig ==
  calcOut # <<>> =>
    LET price == Number(calcIn.price)
        qty == Number(calcIn.qty)
        disc == Number(calcIn.disc)
    IN  /\ calcOut[1].subtotal = NumMul(price, qty)
        /\ calcOut[1].totalAfterDiscount =
             NumSub(calcOut[1].subtotal, NumDivInt(NumMul(calcOut[1].subtotal, disc), 100))
        /\ calcOut[1].totalAfterDiscount <= calcOut[1].subtotal
        /\ calcOut[1].totalAfterDiscount >= 0

\* C5 as stated: every cart line has quantity >= 1 and a discount from 0 to 100.
C5_Orig ==
  \A i \in 1..Len(orderItems) :
    /\ orderItems[i].quantity >= One
    /\ orderItems[i].discount >= 0
    /\ orderItems[i].discount <= Hundred

\* The in-flight saves whose order_items insert has been issued.
ItemsIssued(saves) == { i \in 1..Len(saves) : saves[i].pc = "order_items" }

\* The stored header with the given id, and the item rows tagged with it.
HeadersIn(table, id) == { i \in 1..Len(table) : table[i].id = id }

RowsIn(table, id) == SelectSeq(table, LAMBDA row : row.order_id = id)

HeadersWithId(id) == HeadersIn(orders, id)

RowsOfOrder(id) == RowsIn(order_items, id)

\* C6 as stated: a header written by checkout has payment_status "completed",
\* subtotal_amount, discount_amount and total_amount equal to the sums over the
\* cart lines of subtotal, subtotal - totalAfterDiscount and totalAfterDiscount,
\* and subtotal_amount - discount_amount = total_amount.
C6_Orig ==
  \A i \in ItemsIssued(inFlight) :
    \A h \in HeadersWithId(inFlight[i].orderId) :
      LET items == inFlight[i].orderItems
          row == orders[h]
      IN  /\ row.payment_status = "completed"
          /\ row.subtotal_amount = SumSubtotal(items)
          /\ row.discount_amount = SumDiscount(items)
          /\ row.total_amount = SumTotalAfterDiscount(items)
          /\ NumSub(row.subtotal_amount, row.discount_amount) = row.total_amount

\* C7: the save takes the cart as it is when checkout is pressed; the id the
\* header insert returns is the id of the stored header; and when the
\* order_items insert succeeds the rows added are, line by line and in order,
\* the lines of that cart, each tagged with that id and copying the line's
\* product name, price, quantity, discount, subtotal and total.
C7_ItemsMirrorCart ==
  [][/\ (IsAttempt(event') /\ Len(inFlight') > Len(inFlight)) =>
          inFlight'[Len(inFlight')].orderItems = orderItems
     /\ event' = "ordersOk" =>
          \E i \in 1..Len(inFlight) :
            /\ inFlight[i].pc = "orders"
            /\ inFlight'[i].orderId = orders'[Len(orders')].id
            /\ inFlight'[i].orderItems = inFlight[i].orderItems
            /\ HeadersIn(orders', inFlight'[i].orderId) = { Len(orders') }
     /\ event' = "itemsOk" =>
          \E i \in ItemsIssued(inFlight) :
            LET items == inFlight[i].orderItems
                added == SubSeq(order_items', Len(order_items) + 1, Len(order_items'))
            IN  /\ inFlight' = RemoveAt(inFlight, i)
                /\ SubSeq(order_items', 1, Len(order_items)) = order_items
                /\ Len(added) = Len(items)
                /\ \A k \in 1..Len(items) :
                     /\ added[k].order_id = inFlight[i].orderId
                     /\ added[k].product_name = items[k].name
                     /\ added[k].price = items[k].price
                     /\ added[k].quantity = items[k].quantity
                     /\ added[k].discount_percentage = items[k].discount
                     /\ added[k].subtotal = items[k].subtotal
                     /\ added[k].total_after_discount = items[k].totalAfterDiscount
                /\ RowsIn(order_items', inFlight[i].orderId) = added]_vars

\* A checkout of a cart of two different lines has just completed: its two
\* rows are stored under the header's id.
C7_Witness ==
  /\ event = "itemsOk"
  /\ Len(orders) = 1
  /\ Len(RowsOfOrder(orders[1].id)) = 2
  /\ RowsOfOrder(orders[1].id)[1].discount_percentage
       # RowsOfOrder(orders[1].id)[2].discount_percentage

\* C8: when the order_items insert fails, the header written before it stays in
\* the orders table with no item rows, nothing is deleted, and no further store
\* request is issued.
C8_OrphanHeaderKept ==
  [][event' = "itemsFail" =>
       \E i \in ItemsIssued(inFlight) :
         /\ inFlight' = RemoveAt(inFlight, i)
         /\ orders' = orders
         /\ order_items' = order_items
         /\ HeadersIn(orders', inFlight[i].orderId) # {}
         /\ RowsIn(order_items', inFlight[i].orderId) = <<>>]_vars

\* The order_items insert has just failed: a header without items is stored
\* and nothing is in flight.
C8_Witness ==
  /\ event = "itemsFail"
  /\ inFlight = <<>>
  /\ \E i \in 1..Len(orders) : RowsOfOrder(orders[i].id) = <<>>

\* C9 as stated: after a failed orders or order_items insert, errorMessage
\* holds a failure message.
C9_Orig ==
  event \in { "ordersFail", "itemsFail" } => errorMessage # Null

\* C10: an order_items insert is issued only by the step in which the orders
\* insert returns a stored header, and carries that header's id; a failed
\* orders insert issues none and writes nothing; item rows are written only as
\* the answer to an issued order_items insert.
C10_HeaderBeforeItems ==
  /\ [](\A i \in ItemsIssued(inFlight) : HeadersWithId(inFlight[i].orderId) # {})
  /\ [][/\ Cardinality(ItemsIssued(inFlight')) > Cardinality(ItemsIssued(inFlight)) =>
             /\ event' = "ordersOk"
             /\ Len(orders') = Len(orders) + 1
             /\ \E i \in 1..Len(inFlight) :
                  /\ inFlight[i].pc = "orders"
                  /\ inFlight' = [inFlight EXCEPT ![i].pc = "order_items",
                                                   ![i].orderId = orders'[Len(orders')].id]
        /\ event' = "ordersFail" =>
             /\ Cardinality(ItemsIssued(inFlight')) = Cardinality(ItemsIssued(inFlight))
             /\ Len(inFlight') = Len(inFlight) - 1
             /\ orders' = orders
             /\ order_items' = order_items
        /\ order_items' # order_items =>
             /\ event' = "itemsOk"
             /\ ItemsIssued(inFlight) # {}]_vars

\* The orders insert has just returned: the header is stored and the
\* order_items insert carrying its id is in flight.
C10_Witness ==
  /\ event = "ordersOk"
  /\ order_items = <<>>
  /\ \E i \in ItemsIssued(inFlight) :
       /\ inFlight[i].orderId = orders[Len(orders)].id
       /\ inFlight[i].orderItems # <<>>

\* C11 as stated: every header in the orders table was written by a checkout
\* whose cart held at least one line.  While a checkout waits for its
\* order_items answer, its header is stored and its cart is still known.
C11_Orig ==
  \A i \in ItemsIssued(inFlight) :
    HeadersWithId(inFlight[i].orderId) # {} => inFlight[i].orderItems # <<>>

\* C12: the step in which a checkout's second insert succeeds leaves the cart
\* empty, customer name, phone number and tendered amount empty, and the
\* payment modal closed.
C12_SuccessResetsPage ==
  [][event' = "itemsOk" =>
       /\ orderItems' = <<>>
       /\ customerName' = ""
       /\ phoneNumber' = <<>>
       /\ tenderedAmount' = <<>>
       /\ showPaymentModal' = FALSE]_vars

\* A checkout with a named customer, a phone number and a tendered amount has
\* just succeeded, and the page holds none of them any more.
C12_Witness ==
  /\ event = "itemsOk"
  /\ Len(orders) = 1
  /\ orders[1].customer_name = "Ali"
  /\ orders[1].phone_number = GoodPhone
  /\ orders[1].tendered_amount > 0
  /\ RowsOfOrder(orders[1].id) # <<>>
  /\ orderItems = <<>>
  /\ customerName = ""
  /\ phoneNumber = <<>>
  /\ tenderedAmount = <<>>
  /\ ~showPaymentModal

IsCheckoutStep(e) ==
  e \in { "completePayment", "completeOrder", "ordersOk", "ordersFail", "itemsOk", "itemsFail" }

\* The product of the catalog a stored row was sold from, as the catalog has it now.
CatalogProductOf(row) ==
  { k \in 1..Len(products) : products[k].id = row.product_id }

\* C13: once written, the rows of order_items and the headers of orders are
\* never changed or removed by any later step: not by an edit or a deletion in
\* the products table, not by a cart operation, not by a later checkout.
C13_RowsAreSnapshots ==
  [][/\ Len(order_items') >= Len(order_items)
     /\ \A k \in 1..Len(order_items) : order_items'[k] = order_items[k]
     /\ Len(orders') >= Len(orders)
     /\ \A k \in 1..Len(orders) : orders'[k] = orders[k]]_vars

\* An order was written at the old price and name; the product has since been
\* edited in the catalog and the cart has been refilled, and the stored row
\* still carries the old name and price.
C13_Witness ==
  /\ orderItems # <<>>
  /\ \E k \in 1..Len(order_items) :
       /\ order_items[k].product_name = "Shirt"
       /\ order_items[k].price = FromDecimal(500, 100)
       /\ CatalogProductOf(order_items[k]) # {}
       /\ \A j \in CatalogProductOf(order_items[k]) :
            /\ products[j].name = "Tee"
            /\ products[j].price = FromDecimal(600, 100)

\* C14: no step of a checkout changes the products table, so every product's
\* stock is what it was before, however the checkouts interleave.
C14_CheckoutLeavesProducts ==
  [][IsCheckoutStep(event') => products' = products]_vars

\* Two checkouts of the same product have overlapped and both were written,
\* and the stock of every product is the stored one.
C14_Witness ==
  /\ event = "itemsOk"
  /\ Len(orders) = 2
  /\ Len(RowsOfOrder(1)) >= 1
  /\ Len(RowsOfOrder(2)) >= 1
  /\ products = StoredProducts

InsertIssued(f) == addProduct'[f].pc = "insert" /\ addProduct[f].pc # "insert"

\* C15 as stated: the products insert is issued only by the step in which the
\* duplicate check answered that no product has the barcode, for a submission
\* whose category lookup returned a row; a check that failed or could not be
\* completed issues no insert.
C15_Orig ==
  [][\A f \in Sessions :
       /\ InsertIssued(f) =>
            /\ event' = "duplicateClear"
            /\ ProductsWithCode(trim(addProduct[f].barcode)) = {}
            /\ addProduct[f].categoryId # 0
       /\ event' \in { "categoryMissing", "categoryError", "duplicateFound", "duplicateError" } =>
            addProduct'[f].pc # "insert"]_vars

\* C16 as stated: no two rows of the products table have the same code.
C16_Orig ==
  \A j, k \in 1..Len(products) : j # k => products[j].code # products[k].code

WhiteSpaceOnly(t) == t[2] = ""

RequiredFieldMissing(form) ==
  \/ WhiteSpaceOnly(form.productName)
  \/ form.category = ""
  \/ WhiteSpaceOnly(form.barcode)
  \/ form.price = <<>>
  \/ form.stock = <<>>

\* C17: a submission of AddProduct with a blank name, no category, a blank
\* barcode, an empty price or stock, or a negative price or stock, and a
\* submission of AddCategory with a blank name or description, reports the
\* error and leaves the form waiting on no store call and the tables as they were.
C17_BlankFieldsAbort ==
  [][/\ (event' = "submitProduct" /\ RequiredFieldMissing(addProduct[OneSession])) =>
          /\ addProduct'[OneSession].error = FillAllFieldsMessage
          /\ addProduct'[OneSession].pc = "idle"
          /\ ~addProduct'[OneSession].isLoading
          /\ UNCHANGED catalogVars
     /\ (/\ event' = "submitProduct"
         /\ ~RequiredFieldMissing(addProduct[OneSession])
         /\ (addProduct[OneSession].price[1] < 0 \/ addProduct[OneSession].stock[1] < 0)) =>
          /\ addProduct'[OneSession].error = PositiveNumbersMessage
          /\ addProduct'[OneSession].pc = "idle"
          /\ ~addProduct'[OneSession].isLoading
          /\ UNCHANGED catalogVars
     /\ (/\ event' = "submitCategory"
         /\ (WhiteSpaceOnly(addCategory.categoryName) \/ WhiteSpaceOnly(addCategory.description))) =>
          /\ addCategory'.alert = FillOutAllFieldsAlert
          /\ addCategory'.pc = "idle"
          /\ ~addCategory'.isLoading
          /\ UNCHANGED catalogVars]_vars

\* The AddProduct form has just been submitted with a name of white space only
\* and every other field filled in, and shows the error.
C17_Witness ==
  /\ event = "submitProduct"
  /\ addProduct[OneSession].productName = Padded("")
  /\ addProduct[OneSession].category # ""
  /\ ~WhiteSpaceOnly(addProduct[OneSession].barcode)
  /\ addProduct[OneSession].price # <<>>
  /\ addProduct[OneSession].stock # <<>>
  /\ addProduct[OneSession].error = FillAllFieldsMessage
  /\ addProduct[OneSession].pc = "idle"

\* The items the page aggregates, in the order it reads them.
SoldItems == flatMapItems(sortedOrders(statOrders))

RECURSIVE QuantitySold(_, _)
QuantitySold(items, id) ==
  IF items = <<>> THEN 0
  ELSE QuantitySold(SubSeq(items, 1, Len(items) - 1), id)
         + (IF items[Len(items)].product_id = id THEN items[Len(items)].quantity ELSE 0)

SoldIds == { SoldItems[k].product_id : k \in 1..Len(SoldItems) }

BestSellers ==
  { id \in SoldIds : \A other \in SoldIds :
      QuantitySold(SoldItems, id) >= QuantitySold(SoldItems, other) }

FirstEncountered ==
  SoldItems[CHOOSE k \in 1..Len(SoldItems) :
              /\ SoldItems[k].product_id \in BestSellers
              /\ \A j \in 1..(k - 1) : SoldItems[j].product_id \notin BestSellers].product_id

SmallestId == CHOOSE id \in BestSellers : \A other \in BestSellers : id <= other

NameInList(id) ==
  IF \E k \in 1..Len(statProducts) : statProducts[k].id = id
  THEN statProducts[CHOOSE k \in 1..Len(statProducts) : statProducts[k].id = id].name
  ELSE NotAvailable

\* C18 as stated: the top product is the product with the largest summed
\* quantity, and among several with that sum the one met first in the items.
C18_Orig ==
  (statView # <<>> /\ SoldItems # <<>>) =>
    /\ statView[1].topEntries[1][1] = FirstEncountered
    /\ statView[1].topProduct = NameInList(FirstEncountered)

\* C18, amended: the top product is the product with the largest summed
\* quantity, among several with that sum the one with the smallest product id;
\* topProduct is its name in the fetched products, and 'N/A' when it is not
\* among them or nothing was sold.
C18_TopProductSmallestId ==
  statView # <<>> =>
    IF SoldItems = <<>>
    THEN statView[1].topProduct = NotAvailable
    ELSE /\ statView[1].topEntries[1][1] = SmallestId
         /\ statView[1].topEntries[1][2] = QuantitySold(SoldItems, SmallestId)
         /\ statView[1].topProduct = NameInList(SmallestId)

\* Two products tie for the largest quantity, the one met first has the larger
\* id, and the page names the other one.
C18_Witness ==
  /\ statView # <<>>
  /\ SoldItems # <<>>
  /\ Cardinality(BestSellers) = 2
  /\ FirstEncountered # SmallestId
  /\ statView[1].topProduct = "Shirt"

YearsCovered == EpochYear..(EpochYear + 2)

SameLocalDay(a, b) == LocalDay(a) = LocalDay(b)

InLocalMonth(t, y, m) ==
  /\ DaysBeforeYear(y) + DaysBeforeMonth(y, m) <= LocalDay(t)
  /\ LocalDay(t) < DaysBeforeYear(y) + DaysBeforeMonth(y, m) + DaysInMonth(y, m)

SameLocalMonth(a, b) ==
  \E y \in YearsCovered, m \in 0..11 : InLocalMonth(a, y, m) /\ InLocalMonth(b, y, m)

InLocalYear(t, y) == DaysBeforeYear(y) <= LocalDay(t) /\ LocalDay(t) < DaysBeforeYear(y + 1)

SameLocalYear(a, b) == \E y \in YearsCovered : InLocalYear(a, y) /\ InLocalYear(b, y)

Ulp(x) == Pow2(Max(BitLen(Abs(x)) - MantBits, 0))

\* C20: averageOrderValue is 0 without orders; otherwise it is the number
\* nearest to the sum of total_amount divided by the number of orders.
C20_AverageOrderValue ==
  statView # <<>> =>
    IF statOrders = <<>>
    THEN statView[1].averageOrderValue = 0
    ELSE 2 * Abs(statView[1].averageOrderValue * Len(statOrders) - sumTotalAmount(statOrders))
           <= Len(statOrders) * Ulp(statView[1].averageOrderValue)

\* Orders of 100 and 300 average 200.
C20_Witness ==
  /\ statView # <<>>
  /\ Len(statOrders) = 2
  /\ statOrders[1].total_amount = FromDecimal(100, 1)
  /\ statOrders[2].total_amount = FromDecimal(300, 1)
  /\ statView[1].averageOrderValue = FromDecimal(200, 1)

\* The place of an order among the fetched orders, newest first, orders of the
\* same instant in the order of the fetch.
RecentRank(k) ==
  1 + Cardinality({ j \in 1..Len(statOrders) :
                     \/ statOrders[j].created_at > statOrders[k].created_at
                     \/ statOrders[j].created_at = statOrders[k].created_at /\ j < k })

OrderOfRank(r) == statOrders[CHOOSE k \in 1..Len(statOrders) : RecentRank(k) = r]

RECURSIVE ItemsUpToRank(_)
ItemsUpToRank(r) ==
  IF r = 0 THEN <<>>
  ELSE ItemsUpToRank(r - 1) \o
         [k \in 1..Len(OrderOfRank(r).items) |-> <<OrderOfRank(r).id, OrderOfRank(r).items[k]>>]

Hour24(stamp) == (stamp.hour % 12) + (IF stamp.meridiem = "pm" THEN 12 ELSE 0)

OrderWithId(id) == statOrders[CHOOSE k \in 1..Len(statOrders) : statOrders[k].id = id]

\* C21: recentSales lists the items of the min(5, number of orders) newest
\* orders and of no other order, order by order from the newest, every item
\* once, carrying its order's id and its order's local date and time; the
\* number of items listed is not limited.
C21_RecentSales ==
  statView # <<>> =>
    LET rows == statView[1].recentSales
        expected == ItemsUpToRank(Min(RecentLimit, Len(statOrders)))
    IN  /\ Len(rows) = Len(expected)
        /\ \A k \in 1..Len(rows) :
             /\ rows[k].orderId = expected[k][1]
             /\ rows[k].product_id = expected[k][2].product_id
             /\ rows[k].quantity = expected[k][2].quantity
             /\ LocalTime(rows[k].orderTime.year, rows[k].orderTime.month - 1,
                           rows[k].orderTime.day, Hour24(rows[k].orderTime))
                  = OrderWithId(rows[k].orderId).created_at
        /\ \A k \in 1..(Len(rows) - 1) :
             OrderWithId(rows[k].orderId).created_at >= OrderWithId(rows[k + 1].orderId).created_at

\* Six orders, the oldest left out, and more than five items listed.
C21_Witness ==
  /\ statView # <<>>
  /\ Len(statOrders) = 6
  /\ Len(statView[1].recentSales) > RecentLimit
  /\ Cardinality({ statView[1].recentSales[k].orderId : k \in 1..Len(statView[1].recentSales) }) = RecentLimit
  /\ \E k \in 1..6 :
       /\ \A j \in 1..Len(statView[1].recentSales) : statView[1].recentSales[j].orderId # k
       /\ \A j \in 1..6 : statOrders[j].created_at >= statOrders[k].created_at
       /\ \E j \in 1..6 : statOrders[j].created_at > statOrders[k].created_at

\* C23 as stated: an orders insert is issued only by the Complete Order button
\* of the shown modal, with a tendered amount entered; Complete Payment issues
\* none.
C23_Orig ==
  [][Len(inFlight') > Len(inFlight) =>
       /\ event' = "completeOrder"
       /\ showPaymentModal
       /\ tenderedAmount # <<>>]_vars

\* A stored header of the cart as it is now, none of whose item rows was written.
HeaderOfCartWithoutItems(row) ==
  /\ orderItems # <<>>
  /\ row.total_amount = totalAmount
  /\ row.subtotal_amount = SumSubtotal(orderItems)
  /\ row.discount_amount = SumDiscount(orderItems)
  /\ \A k \in 1..Len(order_items) : order_items[k].order_id # row.id

\* C24 as stated: with no save in flight, no orders insert is issued for a cart
\* whose header an earlier attempt has already written.
C24_Orig ==
  [][(inFlight = <<>> /\ Len(inFlight') > Len(inFlight)) =>
       ~\E k \in 1..Len(orders) : HeaderOfCartWithoutItems(orders[k])]_vars

ValidationFailed ==
  /\ IsAttempt(event')
  /\ errorMessage' \in { InvalidPhoneMessage, InsufficientTenderMessage }

StoreFailed == event' \in { "ordersFail", "itemsFail" }

\* C25: the step in which a checkout attempt fails (a validation error, an error
\* of the orders insert, an error of the order_items insert) changes neither the
\* cart lines nor the customer name, phone number and tendered amount; after a
\* validation error the payment modal is shown, and a store error leaves the
\* modal as it is.
C25_FailureKeepsPage ==
  [][(ValidationFailed \/ StoreFailed) =>
       /\ UNCHANGED <<orderItems, customerName, phoneNumber, tenderedAmount>>
       /\ ValidationFailed => showPaymentModal'
       /\ StoreFailed => UNCHANGED showPaymentModal]_vars

\* The order_items insert has just failed: the cart, the customer fields and
\* the tendered amount are still there and the modal is open.
C25_Witness ==
  /\ event = "itemsFail"
  /\ orders # <<>>
  /\ orderItems # <<>>
  /\ customerName # ""
  /\ phoneNumber # <<>>
  /\ tenderedAmount # <<>>
  /\ showPaymentModal

AttemptEnds == event' \in { "ordersFail", "itemsOk", "itemsFail" }

\* C26: with a store that answers, isLoading = TRUE leads to isLoading = FALSE;
\* the step that ends an attempt (orders error, order_items error, success)
\* leaves isLoading FALSE; and while isLoading is TRUE the modal's Complete
\* Order button starts no save.
C26_LoadingEnds ==
  /\ isLoading ~> ~isLoading
  /\ [][AttemptEnds => ~isLoading']_vars
  /\ [][isLoading => event' # "completeOrder"]_vars

\* An attempt that passed validation has just ended on an orders error.
C26_Witness ==
  /\ event = "ordersFail"
  /\ ~isLoading
  /\ inFlight = <<>>
  /\ showPaymentModal
  /\ errorMessage = Null

InsertIssuedBy(c) ==
  \E i \in 1..Len(barcode[c].jobs) :
    /\ barcode[c].jobs[i].pc # "insert"
    /\ i <= Len(barcode'[c].jobs)
    /\ barcode'[c].jobs[i].pc = "insert"

\* C22 as stated: a recent_barcodes insert is issued only for a job whose print
\* was performed, never for one whose print dialog was cancelled.
C22_Orig ==
  [][\A c \in Components :
       InsertIssuedBy(c) =>
         \A i \in 1..Len(barcode'[c].jobs) :
           barcode'[c].jobs[i].pc = "insert" => barcode'[c].jobs[i].dialog = "printed"]_vars

PrintIgnored == event' = "printIgnored"

\* C27: a handlePrint call made while isPrinting is TRUE or with no targets
\* changes nothing (no job, no insert, no state); a component has at most one
\* print job in progress, and isPrinting is TRUE while it has one.
C27_OnePrintJob ==
  /\ [][PrintIgnored => UNCHANGED <<printVars, posVars, catalogVars, formVars, statVars>>]_vars
  /\ [][\A c \in Components :
          barcode[c].isPrinting => Len(barcode'[c].jobs) <= Len(barcode[c].jobs)]_vars
  /\ [](\A c \in Components :
          /\ Len(barcode[c].jobs) <= 1
          /\ barcode[c].jobs # <<>> => barcode[c].isPrinting)

\* A call has just been ignored while a job was waiting for its print dialog.
C27_Witness ==
  /\ event = "printIgnored"
  /\ barcode["BarcodeGenerator"].isPrinting
  /\ Len(barcode["BarcodeGenerator"].jobs) = 1
  /\ barcode["BarcodeGenerator"].jobs[1].pc = "dialog"

\* C28 as stated: isPrinting = TRUE leads to isPrinting = FALSE in both
\* components, also when the browser never reports the end of the print.
C28_Orig == \A c \in Components : barcode[c].isPrinting ~> ~barcode[c].isPrinting

\* C29 as stated: printingOrderId /= null leads to printingOrderId = null.
C29_Orig == (printingOrderId # 0) ~> (printingOrderId = 0)

\* The last step of a Print All / Print All Custom job whose print was
\* performed and whose insert succeeded.
ClearingEnd(c) ==
  /\ event' = "printDone"
  /\ \E i \in 1..Len(barcode[c].jobs) :
       /\ barcode[c].jobs[i].pc = "fetch"
       /\ barcode[c].jobs[i].clear
       /\ barcode[c].jobs[i].dialog = "printed"

Emptied(c) ==
  \/ barcode[c].variants # <<>> /\ barcode'[c].variants = <<>>
  \/ barcode[c].customVariants # <<>> /\ barcode'[c].customVariants = <<>>

PrintStep ==
  event' \in { "printIgnored", "printStarted", "printNotOpened", "printThrew", "printDialog",
               "insertIssued", "insertOk", "insertFail", "printDone" }

\* C30 as stated: a print step empties variants or customVariants only at the
\* end of a Print All / Print All Custom job whose print was performed and whose
\* recent_barcodes insert succeeded; the steps in which the print or the insert
\* fails change neither list; no print step changes the variants table.
C30_Orig ==
  /\ [][\A c \in Components : (PrintStep /\ Emptied(c)) => ClearingEnd(c)]_vars
  /\ [][\A c \in Components :
          event' \in { "printNotOpened", "printThrew", "insertFail" } =>
            UNCHANGED <<barcode[c].variants, barcode[c].customVariants>>]_vars
  /\ [][PrintStep => UNCHANGED variantsTable]_vars
====
